---------------------------- MODULE Spec2Model ----------------------------
(***************************************************************************)
(* A model of the mock-server gateway: the route pattern compiler         *)
(* (Route::new), the Router (construction and multi-candidate dispatch),  *)
(* Handler::handle with its method filter, and the JSON-store handler.    *)
(*                                                                         *)
(* Strings are sequences of one-character strings, so that splitting,     *)
(* escaping and regular-expression matching are computed character by     *)
(* character as the code computes them.                                   *)
(***************************************************************************)
EXTENDS Integers, Sequences, FiniteSets, TLC

VARIABLES
    pattern,    \* SpecRoute: the pattern string handed to Route::new
    compiled,   \* SpecRoute: the Result of Route::new, None before the call
    text,       \* SpecRoute: the request path handed to Regex::is_match
    matched,    \* SpecRoute: the answer of is_match, None before the call
    config,     \* Config.routes: the configured routes (sorted by Router::new)
    router,     \* the Router {regex_set, handlers}, None before Router::new
    store,      \* store[i]: the State {value, dirty} of handler i's JSON store
    pc,         \* "new", "idle", "handling" (inside try_handle), "done" or
                \* "caught" (try_handle panicked)
    request,    \* try_handle's request (None when no request is in flight)
    remaining,  \* the match indices the for loop has not reached yet
    response,   \* try_handle's response variable
    invoked,    \* the handler indices invoked for this request, in order
    results,    \* results[k]: what Handler::handle returned to invoked[k]
    effects,    \* what the handlers touched while handling this request
    document,   \* SpecJson: State.value, the document behind the RwLock
    lock,       \* SpecJson: the RwLock: who holds a write / a read guard
    permit,     \* SpecJson: State.dirty, whether the Notify holds a permit
    file,       \* SpecJson: the content of the store's file on disk
    client,     \* SpecJson: client[c]: the request task c is running
    worker,     \* SpecJson: the Sync task: its position and its buf
    last        \* SpecJson: last[p]: the latest committed PATCH on pointer p

vars == <<pattern, compiled, text, matched, config, router, store, pc,
          request, remaining, response, invoked, results, effects,
          document, lock, permit, file, client, worker, last>>
jsonVars == <<document, lock, permit, file, client, worker, last>>
routeVars == <<pattern, compiled, text, matched>>
routerVars == <<config, router, store, pc, request, remaining, response,
                invoked, results, effects>>

(***************************************************************************)
(* Bounds of the model.                                                    *)
(***************************************************************************)
MaxPatSegs == 3
MaxTextSegs == 4
MaxRoutes == 3
MaxOps == 2

(***************************************************************************)
(* Strings.                                                                *)
(***************************************************************************)
RECURSIVE Split(_, _)
\* str::split(sep): the pieces between the separators, empty pieces kept.
Split(s, sep) ==
    IF \A i \in 1..Len(s) : s[i] # sep
    THEN <<s>>
    ELSE LET i == CHOOSE k \in 1..Len(s) :
                      s[k] = sep /\ \A j \in 1..(k - 1) : s[j] # sep
         IN  <<SubSeq(s, 1, i - 1)>> \o Split(SubSeq(s, i + 1, Len(s)), sep)

RECURSIVE Flatten(_)
Flatten(ss) == IF ss = <<>> THEN <<>> ELSE <<"/">> \o Head(ss) \o Flatten(Tail(ss))

\* The string "/s1/s2/.../sn" of a list of segments ("/" for the empty list).
FromSegs(ss) == IF ss = <<>> THEN <<"/">> ELSE Flatten(ss)

\* Option values: None, or Some(v).
None == <<>>
Some(v) == <<v>>

SeqsUpTo(S, n) == UNION {[1..k -> S] : k \in 0..n}

(***************************************************************************)
(* Route::new: the pattern compiler.                                       *)
(***************************************************************************)
\* \w restricted to the letters the model's strings use.
WordChars ==
    {"a", "b", "c", "d", "e", "i", "k", "p", "s", "t", "u", "v", "w", "x", "1"}

\* chars!(): the class [\w\-\.~%!$&'()*+,;=:@].
PathChars ==
    WordChars \cup {"-", ".", "~", "%", "!", "$", "&", "'", "(", ")", "*",
                    "+", ",", ";", "=", ":", "@"}

\* PATH_CHARS_REGEX.is_match(segment): the regex is chars!() with a star and
\* no anchors, so it matches when SOME substring of the segment (the empty
\* one included) consists of class characters.
PATH_CHARS_REGEX_is_match(segment) ==
    \E start \in 1..(Len(segment) + 1) :
        \E n \in 0..(Len(segment) + 1 - start) :
            \A j \in start..(start + n - 1) : segment[j] \in PathChars

Tok(t, s) == [t |-> t, s |-> s]

\* Precedence::default()
PrecedenceDefault == [multi_wildcards |-> 0, wildcards |-> 0]

\* Faulty variant of PrecedenceLess: the fields compared in the wrong order.
PrecedenceLess_wildcardsFirst(p, q) ==
    \/ p.wildcards < q.wildcards
    \/ /\ p.wildcards = q.wildcards
       /\ p.multi_wildcards < q.multi_wildcards

\* #[derive(PartialOrd, Ord)] on Precedence: lexicographic in field order.
PrecedenceLess(p, q) ==
    \/ p.multi_wildcards < q.multi_wildcards
    \/ /\ p.multi_wildcards = q.multi_wildcards
       /\ p.wildcards < q.wildcards

PrecedenceLeq(p, q) == p = q \/ PrecedenceLess(p, q)

RECURSIVE CompileSegments(_, _, _)
\* The for loop of Route::new over path.split('/'): the regex and the
\* precedence built so far, or the error of the first rejected segment.
CompileSegments(segs, regex, precedence) ==
    IF segs = <<>>
    THEN [ok |-> TRUE, regex |-> regex, precedence |-> precedence]
    ELSE LET segment == Head(segs) IN
         IF segment = <<>>
         THEN CompileSegments(Tail(segs), regex, precedence)
         ELSE IF ~PATH_CHARS_REGEX_is_match(segment)
         THEN [ok |-> FALSE, regex |-> <<>>, precedence |-> PrecedenceDefault]
         ELSE IF segment = <<"*">>
         THEN CompileSegments(Tail(segs),
                  Append(regex, Tok("segment", <<>>)),
                  [precedence EXCEPT !.wildcards = @ + 1])
         ELSE IF segment = <<"*", "*">>
         THEN CompileSegments(Tail(segs),
                  Append(regex, Tok("multi", <<>>)),
                  [precedence EXCEPT !.multi_wildcards = @ + 1])
         ELSE CompileSegments(Tail(segs),
                  Append(regex, Tok("literal", segment)),
                  precedence)

\* Route::new(path): Ok(Route {precedence, regex, path}) or Err.
Route_new(path) ==
    LET r == CompileSegments(Split(path, "/"), <<Tok("start", <<>>)>>,
                             PrecedenceDefault)
    IN  IF r.ok
        THEN [ok |-> TRUE,
              precedence |-> r.precedence,
              regex |-> Append(r.regex, Tok("end", <<>>)),
              path |-> path]
        ELSE [ok |-> FALSE, precedence |-> PrecedenceDefault,
              regex |-> <<>>, path |-> path]

\* Matching the generated regular expressions, token by token:
\*   start    ^
\*   literal  "/" followed by the escaped segment, i.e. the segment itself
\*   segment  PATH_SEGMENT_PATTERN: "/" and a group of zero or more chars
\*   multi    MULTI_PATH_SEGMENT_PATTERN: "/" and a group of zero or more
\*            chars followed by zero or more ("/" and zero or more chars)
\*   end      an optional "/" and the end of the text
AllIn(s, from, n, class) == \A j \in from..(from + n - 1) : s[j] \in class

RECURSIVE MatchAt(_, _, _, _)
\* Whether regex tokens i.. match s from position j up to its end.
MatchAt(regex, i, s, j) ==
    LET tok == regex[i]
        rest == Len(s) - j     \* characters after position j
    IN  CASE tok.t = "start" -> MatchAt(regex, i + 1, s, j)
          [] tok.t = "end" ->
                \/ j = Len(s) + 1
                \/ j = Len(s) /\ s[j] = "/"
          [] tok.t = "literal" ->
                /\ j <= Len(s) /\ s[j] = "/"
                /\ rest >= Len(tok.s)
                /\ SubSeq(s, j + 1, j + Len(tok.s)) = tok.s
                /\ MatchAt(regex, i + 1, s, j + 1 + Len(tok.s))
          [] tok.t = "segment" ->
                /\ j <= Len(s) /\ s[j] = "/"
                /\ \E n \in 0..rest :
                      /\ AllIn(s, j + 1, n, PathChars)
                      /\ MatchAt(regex, i + 1, s, j + 1 + n)
          [] tok.t = "multi" ->
                /\ j <= Len(s) /\ s[j] = "/"
                /\ \E n \in 0..rest :
                      /\ AllIn(s, j + 1, n, PathChars \cup {"/"})
                      /\ MatchAt(regex, i + 1, s, j + 1 + n)

\* Regex::is_match(text) for a regex Route::new generated.
Regex_is_match(regex, s) == MatchAt(regex, 1, s, 1)

(***************************************************************************)
(* JSON values: numbers and objects (maps from keys to values).  A key is  *)
(* a string, i.e. a sequence of characters.  "bytes" stands for the        *)
(* content of a file body, which is not JSON.                              *)
(***************************************************************************)
EmptyMap == [k \in {} |-> 0]
Num(n) == [t |-> "num", n |-> n, o |-> EmptyMap]
Obj(o) == [t |-> "obj", n |-> 0, o |-> o]
Bytes == [t |-> "bytes", n |-> 0, o |-> EmptyMap]

\* A one-key map, and a map with key k set to v.
Single(k, v) == [x \in {k} |-> v]
MapPut(o, k, v) == [x \in (DOMAIN o) \cup {k} |-> IF x = k THEN v ELSE o[x]]
MapDel(o, k) == [x \in (DOMAIN o) \ {k} |-> o[x]]

RECURSIVE Resolve(_, _)
\* The fold of serde_json's Value::pointer over the reference tokens: an
\* object yields the member named by the token, anything else yields None.
Resolve(value, tokens) ==
    IF tokens = <<>>
    THEN Some(value)
    ELSE IF value.t = "obj" /\ Head(tokens) \in DOMAIN value.o
         THEN Resolve(value.o[Head(tokens)], Tail(tokens))
         ELSE None

\* Value::pointer(path): "" is the whole value; a pointer that does not
\* start with "/" resolves to nothing; otherwise split('/').skip(1).
Value_pointer(value, ptr) ==
    IF ptr = <<>> THEN Some(value)
    ELSE IF Head(ptr) # "/" THEN None
    ELSE Resolve(value, Tail(Split(ptr, "/")))

RECURSIVE Replace(_, _, _)
\* The value with the member reached by tokens (which resolves) set to sub:
\* a write through the reference Value::pointer_mut returned.
Replace(value, tokens, sub) ==
    IF tokens = <<>>
    THEN sub
    ELSE Obj([value.o EXCEPT ![Head(tokens)] = Replace(@, Tail(tokens), sub)])

PointerTokens(ptr) == IF ptr = <<>> THEN <<>> ELSE Tail(Split(ptr, "/"))

(***************************************************************************)
(* json_patch (the crate handle_patch calls): operations add, remove,      *)
(* replace and test on a document, and patch(), which applies a list of    *)
(* operations and undoes the ones already applied when one fails.          *)
(***************************************************************************)
Op(op, path, value) == [op |-> op, path |-> path, value |-> value]

PatchOk(doc) == [err |-> "none", doc |-> doc]
PatchErr(e, doc) == [err |-> e, doc |-> doc]

\* split_pointer(pointer): the parent pointer and the last token, cut at the
\* last "/"; a pointer without "/" is an InvalidPointer.
split_pointer(ptr) ==
    IF \A i \in 1..Len(ptr) : ptr[i] # "/"
    THEN [ok |-> FALSE, parent |-> <<>>, last |-> <<>>]
    ELSE LET i == CHOOSE k \in 1..Len(ptr) :
                      ptr[k] = "/" /\ \A j \in (k + 1)..Len(ptr) : ptr[j] # "/"
         IN  [ok |-> TRUE, parent |-> SubSeq(ptr, 1, i - 1),
              last |-> SubSeq(ptr, i + 1, Len(ptr))]

\* The object reached by the parent pointer gets member last set to value.
AddMember(doc, sp, parent, value) ==
    IF ~sp.ok \/ parent = None THEN PatchErr("InvalidPointer", doc)
    ELSE IF parent[1].t # "obj" THEN PatchErr("InvalidPointer", doc)
    ELSE PatchOk(Replace(doc, PointerTokens(sp.parent),
                         Obj(MapPut(parent[1].o, sp.last, value))))

\* add(doc, path, value)
patch_add(doc, path, value) ==
    IF path = <<>> THEN PatchOk(value)
    ELSE AddMember(doc, split_pointer(path),
                   Value_pointer(doc, split_pointer(path).parent), value)

\* The object reached by the parent pointer loses member last.
RemoveMember(doc, sp, parent) ==
    IF ~sp.ok \/ parent = None THEN PatchErr("InvalidPointer", doc)
    ELSE IF parent[1].t # "obj" THEN PatchErr("InvalidPointer", doc)
    ELSE IF sp.last \notin DOMAIN parent[1].o THEN PatchErr("InvalidPointer", doc)
    ELSE PatchOk(Replace(doc, PointerTokens(sp.parent),
                         Obj(MapDel(parent[1].o, sp.last))))

\* remove(doc, path)
patch_remove(doc, path) ==
    RemoveMember(doc, split_pointer(path),
                 Value_pointer(doc, split_pointer(path).parent))

\* replace(doc, path, value)
patch_replace(doc, path, value) ==
    IF Value_pointer(doc, path) = None THEN PatchErr("InvalidPointer", doc)
    ELSE PatchOk(Replace(doc, PointerTokens(path), value))

\* The target of a test compared with the expected value.
TestTarget(doc, target, expected) ==
    IF target = None THEN PatchErr("InvalidPointer", doc)
    ELSE IF target[1] = expected THEN PatchOk(doc)
    ELSE PatchErr("TestFailed", doc)

\* test(doc, path, expected)
patch_test(doc, path, expected) ==
    TestTarget(doc, Value_pointer(doc, path), expected)

\* One operation of a patch.
ApplyOp(doc, op) ==
    CASE op.op = "add" -> patch_add(doc, op.path, op.value)
      [] op.op = "remove" -> patch_remove(doc, op.path)
      [] op.op = "replace" -> patch_replace(doc, op.path, op.value)
      [] op.op = "test" -> patch_test(doc, op.path, op.value)

RECURSIVE ApplyOps(_, _)
\* After one operation: its error, or the remaining operations applied to
\* the document it left.
ThenApply(r, ops) == IF r.err # "none" THEN r ELSE ApplyOps(r.doc, ops)

\* apply_patches: the operations applied in order up to the first that
\* fails; the document that comes with an error holds the operations applied
\* before it.
ApplyOps(doc, ops) ==
    IF ops = <<>>
    THEN PatchOk(doc)
    ELSE ThenApply(ApplyOp(doc, Head(ops)), Tail(ops))

\* apply_patches undoes the operations already applied when one fails.
Revert(doc, r) == IF r.err = "none" THEN r ELSE PatchErr(r.err, doc)

\* json_patch::patch(doc, patch): all operations, or none.
json_patch_patch(doc, patch) == Revert(doc, ApplyOps(doc, patch))

(***************************************************************************)
(* Requests and responses.                                                 *)
(*   request:  method, path, content_type ("" when the header is absent),  *)
(*             body ([valid, patch]: whether the bytes parse as a JSON     *)
(*             Patch document, and the document).                          *)
(*   response: status, body (None when empty; a JSON body is held as the   *)
(*             value that serde_json::to_string wrote), headers (names).   *)
(***************************************************************************)
NOT_FOUND == 404
METHOD_NOT_ALLOWED == 405
BAD_REQUEST == 400
CONFLICT == 409
UNSUPPORTED_MEDIA_TYPE == 415
INTERNAL_SERVER_ERROR == 500
OK == 200

\* response::from_status(status)
from_status(status) == [status |-> status, body |-> None, headers |-> {}]

\* response::json(value)
response_json(value) ==
    [status |-> OK, body |-> Some(value), headers |-> {"content-type"}]

Effect(what, path, uri) == [what |-> what, path |-> path, uri |-> uri]

\* What a kind-specific handler returns: Ok(response) or Err((request,
\* response)), with the JSON store as it leaves it and what it touched.
Accept(resp, st, effs) ==
    [ok |-> TRUE, response |-> resp, st |-> st, effects |-> effs]
Decline(resp, st) ==
    [ok |-> FALSE, response |-> resp, st |-> st, effects |-> <<>>]

\* urlencoding::decode(path).  Within the model's alphabet and lengths no
\* "%" starts a complete escape that is valid UTF-8, so every "%" is an error
\* and a path without "%" decodes to itself.
decode(path) ==
    IF \E i \in 1..Len(path) : path[i] = "%"
    THEN [ok |-> FALSE, path |-> <<>>]
    ELSE [ok |-> TRUE, path |-> path]

(***************************************************************************)
(* method.rs: method filters.                                              *)
(***************************************************************************)
Methods == {"GET", "POST", "PATCH", "DELETE"}

\* method::any()
method_any == [any |-> TRUE, set |-> {}]
\* A MethodSet
MethodSet(set) == [any |-> FALSE, set |-> set]

\* MethodFilter::is_match
is_match(filter, method) == filter.any \/ method \in filter.set

(***************************************************************************)
(* handler/fs.rs                                                           *)
(***************************************************************************)
\* file_response(path): the outcome of fs::read decides the response.
file_response(path, io) ==
    CASE io = "ok" ->
            [status |-> OK, body |-> Some(Bytes),
             headers |-> {"content-length", "content-type"}]
      [] io = "notfound" -> from_status(NOT_FOUND)
      [] OTHER -> from_status(INTERNAL_SERVER_ERROR)

\* FileHandler::handle
FileHandler_handle(conf, req, st, io) ==
    IF req.method # "GET"
    THEN Decline(from_status(METHOD_NOT_ALLOWED), st)
    ELSE Accept(file_response(conf.path, io), st,
                <<Effect("fs_read", conf.path, <<>>)>>)

\* Faulty variant of SanitizeComponents: a ".." with nothing to pop is
\* dropped instead of rejecting the path.
RECURSIVE SanitizeComponents_lenient(_, _)
SanitizeComponents_lenient(pieces, result) ==
    IF pieces = <<>>
    THEN Some(result)
    ELSE LET c == Head(pieces) IN
         IF c = <<>> \/ c = <<".">>
         THEN SanitizeComponents_lenient(Tail(pieces), result)
         ELSE IF c = <<".", ".">>
         THEN SanitizeComponents_lenient(Tail(pieces),
                  SubSeq(result, 1, Len(result) - 1))
         ELSE SanitizeComponents_lenient(Tail(pieces), Append(result, c))

RECURSIVE SanitizeComponents(_, _)
\* The loop of sanitize_path over the components after a possible Prefix:
\* RootDir (dropped), CurDir (dropped), ParentDir (pops, or rejects when
\* there is nothing to pop) and Normal (pushed); components() itself drops
\* empty pieces and "." pieces.
SanitizeComponents(pieces, result) ==
    IF pieces = <<>>
    THEN Some(result)
    ELSE LET c == Head(pieces) IN
         IF c = <<>> \/ c = <<".">>
         THEN SanitizeComponents(Tail(pieces), result)
         ELSE IF c = <<".", ".">>
         THEN IF result = <<>>
              THEN None
              ELSE SanitizeComponents(Tail(pieces),
                                      SubSeq(result, 1, Len(result) - 1))
         ELSE SanitizeComponents(Tail(pieces), Append(result, c))

\* The build targets: Path::components() yields a Prefix component only on
\* Windows, for a path that starts with a drive ("c:") or a UNC prefix.
Targets == {"unix", "windows"}
HasPrefix(path, target) ==
    /\ target = "windows"
    /\ Len(path) >= 2
    /\ path[1] \in WordChars /\ path[2] = ":"

\* sanitize_path(path), built for target: a Prefix component rejects the
\* path at once.
sanitize_path(path, target) ==
    IF HasPrefix(path, target)
    THEN None
    ELSE SanitizeComponents(Split(path, "/"), <<>>)

\* DirHandler::handle
DirHandler_handle(conf, req, path, st, io) ==
    IF req.method # "GET"
    THEN Decline(from_status(METHOD_NOT_ALLOWED), st)
    ELSE LET d == decode(path) IN
         IF ~d.ok
         THEN Accept(from_status(BAD_REQUEST), st, <<>>)
         ELSE LET components == sanitize_path(d.path, conf.target) IN
              IF components = None
              THEN Accept(from_status(NOT_FOUND), st, <<>>)
              ELSE Accept(file_response(conf.path \o components[1], io), st,
                          <<Effect("fs_read", conf.path \o components[1],
                                   <<>>)>>)

(***************************************************************************)
(* handler/proxy.rs                                                        *)
(***************************************************************************)
\* Characters a PathAndQuery may hold, among those of the model.
UriChars == PathChars \cup {"/", "?"}

\* Faulty variant of append_path: the two paths are concatenated as they
\* are.
append_path_concat(base, path) ==
    [ok |-> TRUE,
     uri |-> IF base = None THEN path
             ELSE base[1].path \o path \o
                  (IF base[1].query = None THEN <<>>
                   ELSE <<"?">> \o base[1].query[1])]

\* append_path(base, path): the composed path and query, or an InvalidUri
\* error when parse() rejects it.
append_path(base, path) ==
    LET joined ==
            IF base = None THEN path
            ELSE LET b == base[1].path
                     endsSlash == b # <<>> /\ b[Len(b)] = "/"
                     startsSlash == path # <<>> /\ path[1] = "/"
                     stem == IF endsSlash /\ startsSlash
                             THEN SubSeq(b, 1, Len(b) - 1)
                             ELSE IF ~endsSlash /\ ~startsSlash
                             THEN Append(b, "/")
                             ELSE b
                 IN  stem \o path \o
                     (IF base[1].query = None THEN <<>>
                      ELSE <<"?">> \o base[1].query[1])
    IN  IF \A i \in 1..Len(joined) : joined[i] \in UriChars
        THEN [ok |-> TRUE, uri |-> joined]
        ELSE [ok |-> FALSE, uri |-> <<>>]

\* ProxyHandler::get_uri(path): scheme and authority are the configured ones.
ProxyHandler_get_uri(conf, path) == append_path(conf.uri, path)

\* ProxyHandler::handle: the upstream's answer is passed on; a transport
\* failure is a 500.
ProxyHandler_handle(conf, req, path, st, io) ==
    LET u == ProxyHandler_get_uri(conf, path) IN
    IF ~u.ok
    THEN Accept(from_status(NOT_FOUND), st, <<>>)
    ELSE Accept(IF io = "ok"
                THEN [status |-> OK, body |-> Some(Bytes),
                      headers |-> {"upstream"}]
                ELSE from_status(INTERNAL_SERVER_ERROR),
                st, <<Effect("upstream", <<>>, u.uri)>>)

(***************************************************************************)
(* handler/mock.rs                                                         *)
(***************************************************************************)
\* MockHandler::handle
MockHandler_handle(conf, req, st) ==
    IF conf.body # None
    THEN Accept([response_json(conf.body[1]) EXCEPT !.status = conf.status],
                st, <<>>)
    ELSE Accept(from_status(conf.status), st, <<>>)

(***************************************************************************)
(* handler/json.rs: the JSON store.  st = [value, dirty]: the document     *)
(* behind the RwLock and whether the Notify holds a permit.                *)
(***************************************************************************)
\* The Mime of a Content-Type header value: its subtype and its suffix.
Mime(content_type) ==
    CASE content_type = "application/json" -> [subtype |-> "json", suffix |-> ""]
      [] content_type = "application/json-patch+json" ->
            [subtype |-> "json-patch+json", suffix |-> "json"]
      [] OTHER -> [subtype |-> "plain", suffix |-> ""]

\* json_request::<Patch>(request): the parsed patch, or the error response.
\* content_type "" is an absent header and "invalid" one that does not parse.
json_request(req) ==
    IF req.content_type = "invalid"
    THEN [ok |-> FALSE, response |-> from_status(BAD_REQUEST), patch |-> <<>>]
    ELSE IF /\ req.content_type # ""
            /\ Mime(req.content_type).subtype # "json"
            /\ Mime(req.content_type).suffix # "json"
    THEN [ok |-> FALSE, response |-> from_status(UNSUPPORTED_MEDIA_TYPE),
          patch |-> <<>>]
    ELSE IF ~req.body.valid
    THEN [ok |-> FALSE, response |-> from_status(BAD_REQUEST), patch |-> <<>>]
    ELSE [ok |-> TRUE, response |-> from_status(OK),
          patch |-> req.body.patch]

\* Faulty variant of handle_get: the whole document, whatever the pointer.
handle_get_root(st, path) ==
    Accept(response_json(st.value), st, <<Effect("doc_read", <<>>, <<>>)>>)

\* JsonHandler::handle_get
handle_get(st, path) ==
    LET sub == Value_pointer(st.value, path) IN
    IF sub # None
    THEN Accept(response_json(sub[1]), st,
                <<Effect("doc_read", <<>>, <<>>)>>)
    ELSE Accept(from_status(NOT_FOUND), st,
                <<Effect("doc_read", <<>>, <<>>)>>)

\* The end of handle_patch, r being what json_patch::patch returned for the
\* value pointer_mut reached: the value is written in place; an error is a
\* 409 or a 404, and dirty.notify() follows only a successful patch.
PatchApplied(st, path, r) ==
    IF r.err # "none"
    THEN Accept(IF r.err = "TestFailed"
                THEN from_status(CONFLICT)
                ELSE from_status(NOT_FOUND),
                [st EXCEPT !.value = Replace(st.value, PointerTokens(path), r.doc)],
                <<Effect("doc_write", <<>>, <<>>)>>)
    ELSE Accept(response_json(r.doc),
                [value |-> Replace(st.value, PointerTokens(path), r.doc),
                 dirty |-> TRUE],
                <<Effect("doc_write", <<>>, <<>>), Effect("notify", <<>>, <<>>)>>)

\* Faulty variant of PatchLocked: the operations are applied one by one and the
\* ones applied before a failure are kept.
PatchLocked_noRevert(st, path, sub, patch) ==
    IF sub = None
    THEN Accept(from_status(NOT_FOUND), st, <<Effect("doc_write", <<>>, <<>>)>>)
    ELSE PatchApplied(st, path, ApplyOps(sub[1], patch))

\* handle_patch under the write lock, sub being value.pointer_mut(path).
PatchLocked(st, path, sub, patch) ==
    IF sub = None
    THEN Accept(from_status(NOT_FOUND), st, <<Effect("doc_write", <<>>, <<>>)>>)
    ELSE PatchApplied(st, path, json_patch_patch(sub[1], patch))

\* handle_patch after json_request returned jr.
PatchParsed(st, path, jr) ==
    IF ~jr.ok
    THEN Accept(jr.response, st, <<>>)
    ELSE PatchLocked(st, path, Value_pointer(st.value, path), jr.patch)

\* JsonHandler::handle_patch
handle_patch(st, req, path) == PatchParsed(st, path, json_request(req))

\* JsonHandler::handle
JsonHandler_handle(req, path, st) ==
    LET d == decode(path) IN
    IF ~d.ok
    THEN Accept(from_status(BAD_REQUEST), st, <<>>)
    ELSE CASE req.method = "GET" -> handle_get(st, d.path)
           [] req.method = "PATCH" -> handle_patch(st, req, d.path)
           [] OTHER -> Decline(from_status(METHOD_NOT_ALLOWED), st)

\* json::default_method_filter()
json_default_method_filter == MethodSet({"GET", "PATCH"})
\* proxy::default_method_filter()
proxy_default_method_filter == method_any
\* fs::default_method_filter()
fs_default_method_filter == MethodSet({"GET"})
\* mock::default_method_filter()
mock_default_method_filter == method_any

(***************************************************************************)
(* path.rs: PathRewriter.  A replacement template is a sequence of         *)
(* characters and capture references "$1", "$2", ...                       *)
(***************************************************************************)
RECURSIVE CapturesAt(_, _, _, _)
\* The texts the groups of regex tokens i.. capture when they match s from
\* position j: each group is greedy, so it takes the longest text that lets
\* the rest of the regex match.
CapturesAt(regex, i, s, j) ==
    LET tok == regex[i]
        class == IF tok.t = "multi" THEN PathChars \cup {"/"} ELSE PathChars
        n == CHOOSE k \in 0..(Len(s) - j) :
                /\ AllIn(s, j + 1, k, class) /\ MatchAt(regex, i + 1, s, j + 1 + k)
                /\ \A m \in (k + 1)..(Len(s) - j) :
                      ~(AllIn(s, j + 1, m, class)
                        /\ MatchAt(regex, i + 1, s, j + 1 + m))
    IN  CASE tok.t = "start" -> CapturesAt(regex, i + 1, s, j)
          [] tok.t = "end" -> <<>>
          [] tok.t = "literal" ->
                CapturesAt(regex, i + 1, s, j + 1 + Len(tok.s))
          [] OTHER ->
                <<SubSeq(s, j + 1, j + n)>>
                    \o CapturesAt(regex, i + 1, s, j + 1 + n)

RECURSIVE Expand(_, _)
\* The template with each reference replaced by its capture (by nothing when
\* the regex has no such group).
Expand(template, caps) ==
    IF template = <<>> THEN <<>>
    ELSE LET x == Head(template)
             g == CASE x = "$1" -> 1 [] x = "$2" -> 2 [] OTHER -> 0
         IN  (IF g = 0 THEN <<x>>
              ELSE IF g <= Len(caps) THEN caps[g] ELSE <<>>)
             \o Expand(Tail(template), caps)

\* PathRewriter::rewrite(path): Regex::replace leaves a text that does not
\* match as it is.
PathRewriter_rewrite(rewriter, path) ==
    IF Regex_is_match(rewriter.regex, path)
    THEN Expand(rewriter.replace, CapturesAt(rewriter.regex, 1, path, 1))
    ELSE path

(***************************************************************************)
(* handler/mod.rs: Handler.                                                *)
(***************************************************************************)
\* HandlerKind::default_method_filter
default_method_filter(kind) ==
    CASE kind \in {"file", "dir"} -> fs_default_method_filter
      [] kind = "proxy" -> proxy_default_method_filter
      [] kind = "json" -> json_default_method_filter
      [] kind = "mock" -> mock_default_method_filter

\* Handler::new(route)
Handler_new(route) ==
    [kind |-> route.kind,
     config |-> route.config,
     path_rewriter |->
        IF route.rewrite_path = None THEN None
        ELSE Some([regex |-> route.route.regex,
                   replace |-> route.rewrite_path[1]]),
     response_headers |-> route.response_headers,
     method_filter |->
        IF route.methods # None THEN MethodSet(route.methods[1])
        ELSE default_method_filter(route.kind)]

\* The match on self.kind in Handler::handle.
KindHandle(h, req, path, st, io) ==
    CASE h.kind = "file" -> FileHandler_handle(h.config, req, st, io)
      [] h.kind = "dir" -> DirHandler_handle(h.config, req, path, st, io)
      [] h.kind = "proxy" -> ProxyHandler_handle(h.config, req, path, st, io)
      [] h.kind = "json" -> JsonHandler_handle(req, path, st)
      [] h.kind = "mock" -> MockHandler_handle(h.config, req, st)

\* Faulty variant of ExtendHeaders: the headers are added to Err responses
\* as well.
ExtendHeaders_always(h, req, result) ==
    [ok |-> result.ok,
     response |-> [result.response EXCEPT !.headers = @ \cup h.response_headers],
     request |-> req,
     st |-> result.st,
     effects |-> result.effects,
     kind_invoked |-> TRUE]

\* Faulty variant of ExtendHeaders: a handler that declines has read the body
\* of the request it hands back.
ExtendHeaders_bodyRead(h, req, result) ==
    [ok |-> result.ok,
     response |->
        IF result.ok
        THEN [result.response EXCEPT !.headers = @ \cup h.response_headers]
        ELSE result.response,
     request |-> IF result.ok THEN req ELSE [req EXCEPT !.body.valid = FALSE],
     st |-> result.st,
     effects |-> result.effects,
     kind_invoked |-> TRUE]

\* The end of Handler::handle: the route's response headers are added to an
\* Ok response only.
ExtendHeaders(h, req, result) ==
    [ok |-> result.ok,
     response |->
        IF result.ok
        THEN [result.response EXCEPT !.headers = @ \cup h.response_headers]
        ELSE result.response,
     request |-> req,
     st |-> result.st,
     effects |-> result.effects,
     kind_invoked |-> TRUE]

\* Faulty variant of Handler_handle: the method filter is not consulted.
Handler_handle_noFilter(h, req, st, io) ==
    ExtendHeaders(h, req,
        KindHandle(h, req,
                   IF h.path_rewriter # None
                   THEN PathRewriter_rewrite(h.path_rewriter[1], req.path)
                   ELSE req.path,
                   st, io))

\* Handler::handle.  Its result: ok (Ok or Err), the response, the request
\* handed back, the JSON store afterwards, what was touched, and whether the
\* kind-specific logic was invoked.
Handler_handle(h, req, st, io) ==
    IF ~is_match(h.method_filter, req.method)
    THEN [ok |-> FALSE, response |-> from_status(METHOD_NOT_ALLOWED),
          request |-> req, st |-> st, effects |-> <<>>, kind_invoked |-> FALSE]
    ELSE ExtendHeaders(h, req,
            KindHandle(h, req,
                       IF h.path_rewriter # None
                       THEN PathRewriter_rewrite(h.path_rewriter[1], req.path)
                       ELSE req.path,
                       st, io))

(***************************************************************************)
(* route.rs: Router.                                                       *)
(***************************************************************************)
RECURSIVE InsertByKey_unstable(_, _)
\* Faulty variant of InsertByKey: r goes before the elements of equal precedence.
InsertByKey_unstable(sorted, r) ==
    IF sorted = <<>> THEN <<r>>
    ELSE IF PrecedenceLeq(r.route.precedence, Head(sorted).route.precedence)
         THEN <<r>> \o sorted
         ELSE <<Head(sorted)>> \o InsertByKey_unstable(Tail(sorted), r)

RECURSIVE InsertByKey(_, _)
\* r inserted into a list sorted by precedence, after every element whose
\* precedence is not greater: the step of a stable sort.
InsertByKey(sorted, r) ==
    IF sorted = <<>> THEN <<r>>
    ELSE IF PrecedenceLess(r.route.precedence, Head(sorted).route.precedence)
         THEN <<r>> \o sorted
         ELSE <<Head(sorted)>> \o InsertByKey(Tail(sorted), r)

\* Faulty variant of SortByKey: the routes left in configuration order.
SortByKey_unsorted(routes) == routes

RECURSIVE SortByKey(_)
\* routes.sort_by_key(|route| route.route.precedence): a stable sort.
SortByKey(routes) ==
    IF routes = <<>> THEN <<>>
    ELSE InsertByKey(SortByKey(SubSeq(routes, 1, Len(routes) - 1)),
                     routes[Len(routes)])

\* Faulty variant of Router_new: the handlers are built from the routes in
\* the order of the configuration, the RegexSet from the sorted routes.
Router_new_handlersUnsorted(routes) ==
    LET sorted == SortByKey(routes)
    IN  [routes |-> sorted,
         regex_set |-> [i \in 1..Len(sorted) |-> sorted[i].route.regex],
         handlers |-> [i \in 1..Len(routes) |-> Handler_new(routes[i])]]

\* Router::new(config): the routes sorted, the RegexSet of their regexes and
\* the handlers built from them, in the same order.
Router_new(routes) ==
    LET sorted == SortByKey(routes)
    IN  [routes |-> sorted,
         regex_set |-> [i \in 1..Len(sorted) |-> sorted[i].route.regex],
         handlers |-> [i \in 1..Len(sorted) |-> Handler_new(sorted[i])]]

\* Faulty variant of RegexSet_matches: every route is a candidate.
RegexSet_matches_all(regex_set, path) == 1..Len(regex_set)

\* RegexSet::matches(path): the indices of the regexes that match.
RegexSet_matches(regex_set, path) ==
    {i \in 1..Len(regex_set) : Regex_is_match(regex_set[i], path)}

RECURSIVE Descending(_)
\* Faulty variant of Ascending: the matches iterated from the last to the first.
Descending(S) ==
    IF S = {} THEN <<>>
    ELSE LET m == CHOOSE x \in S : \A y \in S : x >= y
         IN  <<m>> \o Descending(S \ {m})

RECURSIVE Ascending(_)
\* The iteration order of SetMatches: ascending index.
Ascending(S) ==
    IF S = {} THEN <<>>
    ELSE LET m == CHOOSE x \in S : \A y \in S : x <= y
         IN  <<m>> \o Ascending(S \ {m})

\* The outcomes of the file system and of the upstream.
IoOutcomes == {"ok", "notfound", "error"}

\* Router::new
RouterNew ==
    /\ pc = "new"
    /\ LET r == Router_new(config)
       IN  /\ config' = r.routes
           /\ router' = Some([regex_set |-> r.regex_set, handlers |-> r.handlers])
    /\ pc' = "idle"
    /\ UNCHANGED <<store, request, remaining, response, invoked, results,
                   effects, routeVars, jsonVars>>

\* Router::try_handle up to its first handler call: the response starts as
\* 404 and the matches are computed; with no match the 404 is returned.
Receive(requests) ==
    /\ pc = "idle"
    /\ \E req \in requests :
          LET matches == RegexSet_matches(router[1].regex_set, req.path)
          IN  /\ request' = Some(req)
              /\ response' = from_status(NOT_FOUND)
              /\ remaining' = Ascending(matches)
              /\ pc' = IF matches # {} THEN "handling" ELSE "done"
    /\ invoked' = <<>>
    /\ results' = <<>>
    /\ effects' = <<>>
    /\ UNCHANGED <<config, router, store, routeVars, jsonVars>>

\* One iteration of the for loop of try_handle: the next matching handler is
\* invoked; Ok returns its response, Err keeps the request and the fallback
\* response and goes on (returning the response after the last match).
Invoke ==
    /\ pc = "handling"
    /\ \E io \in IoOutcomes :
          \E res \in {Handler_handle(router[1].handlers[Head(remaining)],
                                     request[1], store[Head(remaining)], io)} :
              /\ invoked' = Append(invoked, Head(remaining))
              /\ results' = Append(results, res)
              /\ store' = [store EXCEPT ![Head(remaining)] = res.st]
              /\ effects' = effects \o res.effects
              /\ response' = res.response
              /\ request' = Some(res.request)
              /\ remaining' = Tail(remaining)
              /\ pc' = IF res.ok \/ Tail(remaining) = <<>>
                       THEN "done" ELSE "handling"
    /\ UNCHANGED <<config, router, routeVars, jsonVars>>

\* Faulty variant of Unwind: the panic is not turned into a response; the
\* response variable keeps what try_handle last put there.
Unwind_noCatch ==
    /\ pc = "handling"
    /\ is_match(router[1].handlers[Head(remaining)].method_filter,
                request[1].method)
    /\ pc' = "caught"
    /\ invoked' = Append(invoked, Head(remaining))
    /\ remaining' = <<>>
    /\ UNCHANGED <<response, config, router, store, request, results, effects,
                   routeVars, jsonVars>>

\* Router::handle around a try_handle that panics: the kind-specific logic
\* of the handler being invoked panics (the method filter cannot),
\* catch_unwind returns Err(payload) and unwrap_or_else logs it and makes
\* the response a 500.
Unwind ==
    /\ pc = "handling"
    /\ is_match(router[1].handlers[Head(remaining)].method_filter,
                request[1].method)
    /\ response' = from_status(INTERNAL_SERVER_ERROR)
    /\ pc' = "caught"
    /\ invoked' = Append(invoked, Head(remaining))
    /\ remaining' = <<>>
    /\ UNCHANGED <<config, router, store, request, results, effects,
                   routeVars, jsonVars>>

\* The response is sent and the request's future is dropped.
Respond ==
    /\ pc \in {"done", "caught"}
    /\ pc' = "idle"
    /\ request' = None
    /\ remaining' = <<>>
    /\ response' = from_status(NOT_FOUND)
    /\ invoked' = <<>>
    /\ results' = <<>>
    /\ effects' = <<>>
    /\ UNCHANGED <<config, router, store, routeVars, jsonVars>>

(***************************************************************************)
(* Configurations and requests.                                            *)
(***************************************************************************)
Str_a == <<"a">>
Str_b == <<"b">>
Str_k == <<"k">>

\* The document the JSON store's file holds at start-up: {"a":{"k":0},"b":0}
Doc0 == Obj([x \in {Str_a, Str_b} |->
               IF x = Str_a THEN Obj(Single(Str_k, Num(0))) ELSE Num(0)])

Kinds == {"file", "dir", "proxy", "json", "mock"}

\* The kind-specific configuration of a route.
KindConfig(kind) ==
    [path |-> CASE kind = "file" -> <<<<"f">>>>
                [] kind = "dir" -> <<<<"srv">>>>
                [] kind = "json" -> <<<<"db">>>>
                [] OTHER -> <<>>,
     uri |-> IF kind = "proxy"
             THEN Some([path |-> <<"/", "u">>, query |-> None])
             ELSE None,
     status |-> IF kind = "mock" THEN 201 ELSE 0,
     body |-> IF kind = "mock" THEN Some(Num(1)) ELSE None,
     target |-> "unix"]

\* The path-and-query parts of the upstream URIs http://up/api/,
\* http://up/api and http://up/api?v=1.
ProxyBases ==
    {[path |-> <<"/", "a", "p", "i", "/">>, query |-> None],
     [path |-> <<"/", "a", "p", "i">>, query |-> None],
     [path |-> <<"/", "a", "p", "i">>, query |-> Some(<<"v", "=", "1">>)]}

\* The kind-specific configurations SpecHandler ranges over: a proxy to each
\* of the upstream URIs, a directory served by a build for each target.
KindConfigs(kind) ==
    CASE kind = "proxy" ->
            {[KindConfig(kind) EXCEPT !.uri = Some(b)] : b \in ProxyBases}
      [] kind = "dir" ->
            {[KindConfig(kind) EXCEPT !.target = t] : t \in Targets}
      [] OTHER -> {KindConfig(kind)}

\* A config::Route; ord is its position in the configuration file.
ConfigRoute(pat, kind, methods, rewrite, headers, ord) ==
    [route |-> Route_new(pat),
     rewrite_path |-> rewrite,
     response_headers |-> headers,
     kind |-> kind,
     config |-> KindConfig(kind),
     methods |-> methods,
     ord |-> ord]

Body(valid, patch) == [valid |-> valid, patch |-> patch]
Request(method, path, content_type, body) ==
    [method |-> method, path |-> path, content_type |-> content_type,
     body |-> body]

\* The variables of SpecJson in the specifications that do not use them.
JsonOff ==
    /\ document = Num(0) /\ lock = <<>> /\ permit = FALSE /\ file = <<>>
    /\ client = <<>> /\ worker = <<>> /\ last = <<>>

\* Spec: up to MaxRoutes routes over three patterns and four handler
\* profiles (a mock that accepts every method, a file that passes GET and
\* POST through its filter and declines POST itself, a JSON store with its
\* default filter, a proxy that filters GET out); requests without a body.
RouterPatterns == {<<"/", "a">>, <<"/", "*">>, <<"/", "*", "*">>}
RouterProfiles ==
    {[kind |-> "mock", methods |-> None],
     [kind |-> "file", methods |-> Some({"GET", "POST"})],
     [kind |-> "json", methods |-> None],
     [kind |-> "proxy", methods |-> Some({"POST"})]}
RouterRequests ==
    {Request(m, p, "", Body(TRUE, <<>>)) :
        m \in {"GET", "POST"}, p \in {<<"/", "a">>, <<"/", "x", "/", "x">>}}

InitIdle ==
    /\ router = None
    /\ pc = "new"
    /\ request = None
    /\ remaining = <<>>
    /\ response = from_status(NOT_FOUND)
    /\ invoked = <<>>
    /\ results = <<>>
    /\ effects = <<>>
    /\ pattern = <<>> /\ compiled = None /\ text = <<>> /\ matched = None
    /\ JsonOff

Init ==
    /\ \E n \in 1..MaxRoutes :
          \E pats \in [1..n -> RouterPatterns], profs \in [1..n -> RouterProfiles] :
              /\ config = [i \in 1..n |->
                             ConfigRoute(pats[i], profs[i].kind, profs[i].methods,
                                         None, {"x-route"}, i)]
              /\ store = [i \in 1..n |-> [value |-> Doc0, dirty |-> FALSE]]
    /\ InitIdle

Next == RouterNew \/ Receive(RouterRequests) \/ Invoke \/ Unwind \/ Respond

Spec == Init /\ [][Next]_vars

(***************************************************************************)
(* SpecHandler: one handler behind the route "/**", of any kind, with any  *)
(* explicit method set or none, with or without a path rewrite to "$1"     *)
(* (which turns the path "/" into the root pointer ""); requests with any  *)
(* method, and PATCH bodies of up to MaxOps operations.                    *)
(***************************************************************************)
PatchOps ==
    {Op("add", <<"/", "k">>, Num(1)),
     Op("remove", <<"/", "k">>, Num(0)),
     Op("replace", <<"/", "k">>, Num(1)),
     Op("test", <<"/", "k">>, Num(0))}
Patches == SeqsUpTo(PatchOps, MaxOps)

HandlerPaths ==
    {<<"/">>, <<"/", "a">>, <<"/", "a", "/", "k">>, <<"/", "b">>,
     <<"/", "c">>, <<"/", "%">>}

\* Paths for the directory and proxy handlers: /x, /a/../b, /../../etc/passwd,
\* /a/../../b, /./a and /c:/a (which "$1" rewrites to x, a/../b, ...).
FsPaths ==
    {<<"/", "x">>,
     <<"/", "a", "/", ".", ".", "/", "b">>,
     <<"/", ".", ".", "/", ".", ".", "/", "e", "t", "c", "/",
       "p", "a", "s", "s", "w", "d">>,
     <<"/", "a", "/", ".", ".", "/", ".", ".", "/", "b">>,
     <<"/", ".", "/", "a">>,
     <<"/", "c", ":", "/", "a">>}

HandlerRequests ==
    {Request(m, p, "", Body(TRUE, <<>>)) :
        m \in Methods \ {"PATCH"}, p \in HandlerPaths \cup FsPaths}
    \cup {Request("PATCH", p, "application/json", Body(TRUE, patch)) :
            p \in HandlerPaths, patch \in Patches}
    \cup {Request("PATCH", p, "application/json", Body(FALSE, <<>>)) :
            p \in HandlerPaths}
    \cup {Request("PATCH", p, ct, Body(TRUE, <<Op("add", <<"/", "k">>, Num(1))>>)) :
            p \in HandlerPaths,
            ct \in {"", "application/json-patch+json", "text/plain", "invalid"}}

InitHandler ==
    /\ \E kind \in Kinds, methods \in {None} \cup {Some(S) : S \in SUBSET Methods},
          rewrite \in {None, Some(<<"$1">>)} :
          \E kc \in KindConfigs(kind) :
              config = <<[ConfigRoute(<<"/", "*", "*">>, kind, methods,
                                      rewrite, {"x-route"}, 1)
                            EXCEPT !.config = kc]>>
    /\ store = <<[value |-> Doc0, dirty |-> FALSE]>>
    /\ InitIdle

NextHandler == RouterNew \/ Receive(HandlerRequests) \/ Invoke \/ Respond

SpecHandler == InitHandler /\ [][NextHandler]_vars

(***************************************************************************)
(* SpecRoute: Route::new and is_match applied to bounded inputs.           *)
(***************************************************************************)
PatternSegments == {<<"a">>, <<"c">>, <<"*">>, <<"*", "*">>, <<"#">>}
TextSegments == {<<>>, <<"a">>, <<"x">>, <<"c">>}

Patterns == {FromSegs(ss) : ss \in SeqsUpTo(PatternSegments, MaxPatSegs)}
Texts == {FromSegs(ss) : ss \in SeqsUpTo(TextSegments, MaxTextSegs)}

InitRoute ==
    /\ pattern \in Patterns
    /\ compiled = None
    /\ text = <<>>
    /\ matched = None
    /\ config = <<>> /\ router = None /\ store = <<>> /\ pc = "route"
    /\ request = None /\ remaining = <<>> /\ response = from_status(NOT_FOUND)
    /\ invoked = <<>> /\ results = <<>> /\ effects = <<>>
    /\ JsonOff

RouteNew ==
    /\ compiled = None
    /\ compiled' = Some(Route_new(pattern))
    /\ UNCHANGED <<pattern, text, matched, routerVars, jsonVars>>

IsMatch ==
    /\ compiled # None /\ compiled[1].ok
    /\ matched = None
    /\ \E s \in Texts :
          /\ text' = s
          /\ matched' = Some(Regex_is_match(compiled[1].regex, s))
    /\ UNCHANGED <<pattern, compiled, routerVars, jsonVars>>

NextRoute == RouteNew \/ IsMatch

SpecRoute == InitRoute /\ [][NextRoute]_vars

(***************************************************************************)
(* SpecJson: one JSON store (handler/json.rs) used by concurrent request   *)
(* tasks and its Sync task.  State.value is behind a tokio RwLock,         *)
(* State.dirty is a tokio Notify, and a task moves from one await or lock  *)
(* operation to the next in one step.                                      *)
(***************************************************************************)
\* The request tasks, the requests each of them makes one after the other,
\* and the I/O errors the Sync task meets.
MaxReqs == 2
MaxIoFailures == 1

Clients == {1, 2}
\* The Sync task, as a holder of the lock.
Sync == 0

\* The characters of the member names, in byte order.
CharOrder ==
    <<"1", "a", "b", "c", "d", "e", "i", "k", "p", "s", "t", "u", "v", "w", "x">>
Rank(ch) == CHOOSE i \in 1..Len(CharOrder) : CharOrder[i] = ch

RECURSIVE StrLess(_, _)
\* The order of String: byte by byte, a proper prefix first.
StrLess(s1, s2) ==
    IF s2 = <<>> THEN FALSE
    ELSE IF s1 = <<>> THEN TRUE
    ELSE IF Head(s1) # Head(s2) THEN Rank(Head(s1)) < Rank(Head(s2))
    ELSE StrLess(Tail(s1), Tail(s2))

RECURSIVE SortedKeys(_)
\* The keys of a serde_json Map in the order its iterator yields them.
SortedKeys(keys) ==
    IF keys = {} THEN <<>>
    ELSE LET k == CHOOSE x \in keys : \A y \in keys \ {x} : StrLess(x, y)
         IN  <<k>> \o SortedKeys(keys \ {k})

RECURSIVE to_string(_)
RECURSIVE Members(_, _)
\* The members of an object, written "key":value and separated by commas.
Members(o, keys) ==
    IF keys = <<>> THEN <<>>
    ELSE <<"\"">> \o Head(keys) \o <<"\"", ":">> \o to_string(o[Head(keys)])
         \o (IF Len(keys) > 1 THEN <<",">> ELSE <<>>)
         \o Members(o, Tail(keys))

\* serde_json::to_writer(value) (config.pretty = false): the compact JSON
\* text of a value, as the characters written.
to_string(value) ==
    IF value.t = "obj"
    THEN <<"{">> \o Members(value.o, SortedKeys(DOMAIN value.o)) \o <<"}">>
    ELSE <<ToString(value.n)>>

\* The document the store starts with: {"a":{"k":0},"b":{"k":0}}
StoreDoc == Obj([x \in {Str_a, Str_b} |-> Obj(Single(Str_k, Num(0)))])

\* The pointers the requests name: /a and /b resolve, /c does not.
Ptr_a == <<"/", "a">>
Ptr_b == <<"/", "b">>
Ptr_c == <<"/", "c">>
JsonPointers == {Ptr_a, Ptr_b}

\* Patches: [add /k 1]; [remove /k, add /k 2]; [add /k 1, test /k 0], whose
\* test fails after the add was applied.
AddK1 == <<Op("add", <<"/", "k">>, Num(1))>>
SwapK2 == <<Op("remove", <<"/", "k">>, Num(0)), Op("add", <<"/", "k">>, Num(2))>>
AddThenTest == <<Op("add", <<"/", "k">>, Num(1)), Op("test", <<"/", "k">>, Num(0))>>

JsonPatch(ptr, patch) ==
    Request("PATCH", ptr, "application/json-patch+json", Body(TRUE, patch))
JsonGet(ptr) == Request("GET", ptr, "", Body(FALSE, <<>>))

\* The requests of task c.  Task 1 works on /a, with every kind of failing
\* PATCH; the other tasks read and patch both pointers.
ClientRequests(c) ==
    IF c = 1
    THEN {JsonGet(Ptr_a), JsonPatch(Ptr_a, AddK1), JsonPatch(Ptr_a, SwapK2),
          JsonPatch(Ptr_a, AddThenTest), JsonPatch(Ptr_c, AddK1),
          Request("PATCH", Ptr_a, "text/plain", Body(TRUE, AddK1)),
          Request("PATCH", Ptr_a, "application/json", Body(FALSE, <<>>))}
    ELSE {JsonGet(p) : p \in JsonPointers}
         \cup {JsonPatch(p, patch) : p \in JsonPointers, patch \in {AddK1, SwapK2}}

\* Faulty variant of CanRead: a read guard is granted whoever holds the lock.
CanRead_always(l) == TRUE

\* tokio's RwLock: a write guard excludes every other guard, a read guard
\* excludes write guards.
CanRead(l) == l.w = {}
\* Faulty variant of CanWrite: a write guard is granted whoever holds the lock.
CanWrite_shared(l) == TRUE
CanWrite(l) == l.w = {} /\ l.r = {}

\* The value the pointer of task c's request reaches in doc.
SubValue(doc, c) == Value_pointer(doc, client[c].req.path)
\* Faulty variant of WithSubValue: the write goes to a copy of the document
\* as it was read at start-up, which then replaces the document.
WithSubValue_staleCopy(doc, c, sub) ==
    Replace(StoreDoc, PointerTokens(client[c].req.path), sub)

\* The document with the value the pointer of task c's request reaches set.
WithSubValue(doc, c, sub) == Replace(doc, PointerTokens(client[c].req.path), sub)

\* The store after JsonHandler::new, before tasks that make n requests each:
\* the value parsed from the file, the Sync task waiting for a signal.
JsonNew(n) ==
    /\ pattern = <<>> /\ compiled = None /\ text = <<>> /\ matched = None
    /\ config = <<>> /\ router = None /\ store = <<>> /\ pc = "json"
    /\ request = None /\ remaining = <<>> /\ response = None
    /\ invoked = <<>> /\ results = <<>> /\ effects = <<>>
    /\ document = StoreDoc
    /\ lock = [w |-> {}, r |-> {}]
    /\ permit = FALSE
    /\ file = to_string(StoreDoc)
    /\ client = [c \in Clients |->
                   [pc |-> "idle", req |-> JsonGet(Ptr_a), resp |-> None,
                    i |-> 0, base |-> None, left |-> n, signals |-> 0]]
    /\ worker = [pc |-> "notified", buf |-> <<>>, failures |-> 0, pending |-> 0]
    /\ last = [p \in JsonPointers |-> [body |-> None, by |-> {}]]

InitJson == JsonNew(MaxReqs)

\* A request reaches JsonHandler::handle: GET goes to handle_get, PATCH to
\* handle_patch.
Start(c) ==
    /\ client[c].pc \in {"idle", "done"}
    /\ client[c].left > 0
    /\ \E req \in ClientRequests(c) :
          client' = [client EXCEPT ![c] =
                       [pc |-> IF req.method = "GET" THEN "read" ELSE "parse",
                        req |-> req, resp |-> None, i |-> 0, base |-> None,
                        left |-> @.left - 1, signals |-> 0]]
    /\ UNCHANGED <<document, lock, permit, file, worker, last, routeVars, routerVars>>

\* handle_patch: json_request(request).await; its error is the response.
ParseDone(c, jr) ==
    client' = [client EXCEPT ![c].pc = IF jr.ok THEN "write" ELSE "done",
                             ![c].resp = IF jr.ok THEN None ELSE Some(jr.response)]
Parse(c) ==
    /\ client[c].pc = "parse"
    /\ ParseDone(c, json_request(client[c].req))
    /\ UNCHANGED <<document, lock, permit, file, worker, last, routeVars, routerVars>>

\* Faulty variant of Locked: the 404 for a pointer that reaches nothing leaves
\* the write guard held.
Locked_keepGuard(c, sub) ==
    /\ client' = [client EXCEPT
                    ![c].pc = IF sub = None THEN "done" ELSE "patch",
                    ![c].i = IF sub = None THEN 0 ELSE 1,
                    ![c].base = IF sub = None THEN None ELSE Some(document),
                    ![c].resp = IF sub = None THEN Some(from_status(NOT_FOUND))
                                ELSE None]
    /\ lock' = [lock EXCEPT !.w = @ \cup {c}]

\* handle_patch: value.write().await and pointer_mut(path); a pointer that
\* reaches nothing is a 404 and the guard is dropped by the return.
Locked(c, sub) ==
    IF sub = None
    THEN /\ client' = [client EXCEPT ![c].pc = "done",
                                     ![c].resp = Some(from_status(NOT_FOUND))]
         /\ UNCHANGED lock
    ELSE /\ client' = [client EXCEPT ![c].pc = "patch", ![c].i = 1,
                                     ![c].base = Some(document)]
         /\ lock' = [lock EXCEPT !.w = @ \cup {c}]
WriteLock(c) ==
    /\ client[c].pc = "write"
    /\ CanWrite(lock)
    /\ Locked(c, SubValue(document, c))
    /\ UNCHANGED <<document, permit, file, worker, last, routeVars, routerVars>>

\* Faulty variant of Patched: the operations applied before the one that
\* fails are kept.
Patched_keepApplied(c, r) ==
    IF r.err = "none"
    THEN /\ document' = WithSubValue(document, c, r.doc)
         /\ client' = [client EXCEPT ![c].i = @ + 1]
         /\ UNCHANGED lock
    ELSE /\ document' = document
         /\ client' = [client EXCEPT ![c].pc = "done", ![c].i = 0,
                          ![c].base = None,
                          ![c].resp = Some(IF r.err = "TestFailed"
                                           THEN from_status(CONFLICT)
                                           ELSE from_status(NOT_FOUND))]
         /\ lock' = [lock EXCEPT !.w = @ \ {c}]

\* Faulty variant of Patched: a patch that fails raises the dirty signal too.
Patched_signalOnError(c, r) ==
    IF r.err = "none"
    THEN /\ document' = WithSubValue(document, c, r.doc)
         /\ client' = [client EXCEPT ![c].i = @ + 1]
         /\ UNCHANGED lock
    ELSE /\ document' = WithSubValue(document, c, SubValue(client[c].base[1], c)[1])
         /\ client' = [client EXCEPT ![c].pc = "notify", ![c].i = 0,
                          ![c].base = None,
                          ![c].resp = Some(from_status(CONFLICT))]
         /\ lock' = [lock EXCEPT !.w = @ \ {c}]

\* json_patch::patch, one operation: it is applied in place; when it fails
\* the operations applied before it are undone, the error is a 409 or a 404
\* and the guard is dropped by the return.
Patched(c, r) ==
    IF r.err = "none"
    THEN /\ document' = WithSubValue(document, c, r.doc)
         /\ client' = [client EXCEPT ![c].i = @ + 1]
         /\ UNCHANGED lock
    ELSE /\ document' = WithSubValue(document, c, SubValue(client[c].base[1], c)[1])
         /\ client' = [client EXCEPT ![c].pc = "done", ![c].i = 0,
                          ![c].base = None,
                          ![c].resp = Some(IF r.err = "TestFailed"
                                           THEN from_status(CONFLICT)
                                           ELSE from_status(NOT_FOUND))]
         /\ lock' = [lock EXCEPT !.w = @ \ {c}]
PatchOp(c) ==
    /\ client[c].pc = "patch"
    /\ client[c].i <= Len(json_request(client[c].req).patch)
    /\ Patched(c, ApplyOp(SubValue(document, c)[1],
                          json_request(client[c].req).patch[client[c].i]))
    /\ UNCHANGED <<permit, file, worker, last, routeVars, routerVars>>

\* handle_patch: response::json(subvalue), then the guard is dropped at the
\* end of the block.
Committed(c, resp) ==
    /\ client' = [client EXCEPT ![c].pc = "notify", ![c].i = 0,
                             ![c].base = None, ![c].resp = Some(resp)]
    /\ last' = [last EXCEPT ![client[c].req.path] =
                  [body |-> resp.body, by |-> @.by \cup {c}]]
Commit(c) ==
    /\ client[c].pc = "patch"
    /\ client[c].i > Len(json_request(client[c].req).patch)
    /\ Committed(c, response_json(SubValue(document, c)[1]))
    /\ lock' = [lock EXCEPT !.w = @ \ {c}]
    /\ UNCHANGED <<document, permit, file, worker, routeVars, routerVars>>

\* Faulty variant of Notify: the task ends without storing a permit.
Notify_silent(c) ==
    /\ client[c].pc = "notify"
    /\ client' = [client EXCEPT ![c].pc = "done", ![c].signals = @ + 1]
    /\ worker' = [worker EXCEPT !.pending = @ + 1]
    /\ UNCHANGED <<document, lock, permit, file, last, routeVars, routerVars>>

\* handle_patch: self.state.dirty.notify(); the Notify keeps one permit.
\* worker.pending counts the calls since the Sync task last woke.
Notify(c) ==
    /\ client[c].pc = "notify"
    /\ permit' = TRUE
    /\ client' = [client EXCEPT ![c].pc = "done", ![c].signals = @ + 1]
    /\ worker' = [worker EXCEPT !.pending = @ + 1]
    /\ UNCHANGED <<document, lock, file, last, routeVars, routerVars>>

\* handle_get: value.read().await
ReadLock(c) ==
    /\ client[c].pc = "read"
    /\ CanRead(lock)
    /\ lock' = [lock EXCEPT !.r = @ \cup {c}]
    /\ client' = [client EXCEPT ![c].pc = "get"]
    /\ UNCHANGED <<document, permit, file, worker, last, routeVars, routerVars>>

\* handle_get: the value the pointer reaches, or 404; the guard is dropped.
Get(c) ==
    /\ client[c].pc = "get"
    /\ client' = [client EXCEPT ![c].pc = "done",
                    ![c].resp = Some(handle_get([value |-> document, dirty |-> permit],
                                                client[c].req.path).response)]
    /\ lock' = [lock EXCEPT !.r = @ \ {c}]
    /\ UNCHANGED <<document, permit, file, worker, last, routeVars, routerVars>>

\* Faulty variant of SyncNotified: the signal is a queue, a wake takes one
\* notify call out of it.
SyncNotified_queue ==
    /\ worker.pc = "notified"
    /\ permit
    /\ permit' = (worker.pending > 1)
    /\ worker' = [worker EXCEPT !.pc = "read", !.pending = @ - 1]
    /\ UNCHANGED <<document, lock, file, client, last, routeVars, routerVars>>

\* Sync::run: self.state.dirty.notified().await takes the permit.
SyncNotified ==
    /\ worker.pc = "notified"
    /\ permit
    /\ permit' = FALSE
    /\ worker' = [worker EXCEPT !.pc = "read", !.pending = 0]
    /\ UNCHANGED <<document, lock, file, client, last, routeVars, routerVars>>

\* Sync::fill_buf: self.state.value.read().await
SyncReadLock ==
    /\ worker.pc = "read"
    /\ CanRead(lock)
    /\ lock' = [lock EXCEPT !.r = @ \cup {Sync}]
    /\ worker' = [worker EXCEPT !.pc = "fill_buf"]
    /\ UNCHANGED <<document, permit, file, client, last, routeVars, routerVars>>

\* Faulty variant of SyncFillBuf: the read guard outlives fill_buf.
SyncFillBuf_keepGuard ==
    /\ worker.pc = "fill_buf"
    /\ worker' = [worker EXCEPT !.pc = "set_len",
                                !.buf = @ \o to_string(document)]
    /\ UNCHANGED <<document, lock, permit, file, client, last, routeVars, routerVars>>

\* Sync::fill_buf: the value is serialized onto the end of buf and the guard
\* is dropped.
SyncFillBuf ==
    /\ worker.pc = "fill_buf"
    /\ worker' = [worker EXCEPT !.pc = "set_len",
                                !.buf = @ \o to_string(document)]
    /\ lock' = [lock EXCEPT !.r = @ \ {Sync}]
    /\ UNCHANGED <<document, permit, file, client, last, routeVars, routerVars>>

\* Faulty variant of SyncSetLen: the file keeps its content and the write
\* lands after it.
SyncSetLen_noTruncate ==
    /\ worker.pc = "set_len"
    /\ worker' = [worker EXCEPT !.pc = "write_all"]
    /\ UNCHANGED <<document, lock, permit, file, client, last, routeVars, routerVars>>

\* Sync::write: file.seek(Start(0)) and file.set_len(0)
SyncSetLen ==
    /\ worker.pc = "set_len"
    /\ file' = <<>>
    /\ worker' = [worker EXCEPT !.pc = "write_all"]
    /\ UNCHANGED <<document, lock, permit, client, last, routeVars, routerVars>>

\* Faulty variant of SyncWriteAll: a signal raised during the flush is
\* forgotten when the flush ends.
SyncWriteAll_dropPermit ==
    /\ worker.pc = "write_all"
    /\ file' = file \o worker.buf
    /\ worker' = [worker EXCEPT !.pc = "notified", !.buf = <<>>]
    /\ permit' = FALSE
    /\ UNCHANGED <<document, lock, client, last, routeVars, routerVars>>

\* Sync::write: file.write_all(&self.buf) and self.buf.clear()
SyncWriteAll ==
    /\ worker.pc = "write_all"
    /\ file' = file \o worker.buf
    /\ worker' = [worker EXCEPT !.pc = "notified", !.buf = <<>>]
    /\ UNCHANGED <<document, lock, permit, client, last, routeVars, routerVars>>

\* The lengths write_all may have written when it fails.
PartialWrites(buf) == {0, Len(buf) - 1}

\* Sync::write returns an error from seek or set_len (the file is as it was)
\* or from write_all (a part of buf is written); `?` returns before
\* buf.clear(), run logs the error and waits for the next signal.
SyncIoError ==
    /\ worker.pc \in {"set_len", "write_all"}
    /\ worker.failures < MaxIoFailures
    /\ IF worker.pc = "write_all"
       THEN \E n \in PartialWrites(worker.buf) :
               file' = file \o SubSeq(worker.buf, 1, n)
       ELSE UNCHANGED file
    /\ worker' = [worker EXCEPT !.pc = "notified", !.failures = @ + 1]
    /\ UNCHANGED <<document, lock, permit, client, last, routeVars, routerVars>>

NextJson ==
    \/ \E c \in Clients : Start(c)
    \/ \E c \in Clients : Parse(c)
    \/ \E c \in Clients : WriteLock(c)
    \/ \E c \in Clients : PatchOp(c)
    \/ \E c \in Clients : Commit(c)
    \/ \E c \in Clients : Notify(c)
    \/ \E c \in Clients : ReadLock(c)
    \/ \E c \in Clients : Get(c)
    \/ SyncNotified
    \/ SyncReadLock
    \/ SyncFillBuf
    \/ SyncSetLen
    \/ SyncWriteAll
    \/ SyncIoError

SpecJson == InitJson /\ [][NextJson]_vars

\* The steps of request task c once its request has arrived, and the steps
\* of the Sync task apart from I/O errors.
ClientRun(c) ==
    \/ Parse(c) \/ WriteLock(c) \/ PatchOp(c) \/ Commit(c) \/ Notify(c)
    \/ ReadLock(c) \/ Get(c)
SyncRun ==
    SyncNotified \/ SyncReadLock \/ SyncFillBuf \/ SyncSetLen \/ SyncWriteAll

\* SpecJsonFair: the tokio runtime polls every task that can make progress,
\* the request tasks and the spawned Sync task alike.  Requests need not
\* arrive and I/O need not fail.  Each task makes one request.
InitJsonFair == JsonNew(1)

SpecJsonFair ==
    /\ InitJsonFair /\ [][NextJson]_vars
    /\ \A c \in Clients : WF_vars(ClientRun(c))
    /\ WF_vars(SyncRun)

(***************************************************************************)
(* Properties of the pattern compiler, checked under SpecRoute.            *)
(***************************************************************************)
\* The non-empty segments of a pattern that are equal to seg, counted.
CountSegments(path, seg) ==
    LET segs == Split(path, "/")
    IN  Cardinality({i \in 1..Len(segs) : segs[i] = seg})

\* (m, w) is below (n, v) lexicographically, the first component first.
LexLess(m, w, n, v) == m < n \/ (m = n /\ w < v)

\* C5: Route::new scores a route by the pair (number of "**" segments,
\* number of "*" segments), and scores compare lexicographically with the
\* "**" count first, so that (0,0) < (0,1) < (1,0) < (1,1).
C5_PrecedenceScore ==
    (compiled # None /\ compiled[1].ok) =>
        LET p == compiled[1].precedence
        IN  /\ p.multi_wildcards = CountSegments(pattern, <<"*", "*">>)
            /\ p.wildcards = CountSegments(pattern, <<"*">>)
            /\ \A m \in 0..MaxPatSegs, w \in 0..MaxPatSegs :
                  LET q == [multi_wildcards |-> m, wildcards |-> w]
                  IN  /\ PrecedenceLess(p, q)
                         <=> LexLess(p.multi_wildcards, p.wildcards, m, w)
                      /\ PrecedenceLess(q, p)
                         <=> LexLess(m, w, p.multi_wildcards, p.wildcards)

\* C5's case: a pattern with one "*" and one "**" was compiled; its score
\* (1,1) is above (1,0), which is above (0,1).
C5_Witness ==
    /\ compiled # None /\ compiled[1].ok
    /\ pattern = <<"/", "*", "*", "/", "*">>
    /\ compiled[1].precedence = [multi_wildcards |-> 1, wildcards |-> 1]
    /\ PrecedenceLess([multi_wildcards |-> 1, wildcards |-> 0],
                      compiled[1].precedence)
    /\ PrecedenceLess([multi_wildcards |-> 0, wildcards |-> 1],
                      [multi_wildcards |-> 1, wildcards |-> 0])

\* C6 as stated: "*" matches exactly one path segment and "**" one or more:
\* "/a/*/c" matches /a/x/c and not /a/x/x/c, and "/a/**" matches /a/x/x/x
\* and neither /a nor /a/.  The code violates the last case: the group of
\* MULTI_PATH_SEGMENT_PATTERN may be empty, so "/a/**" matches /a/.
C6_WildcardSegments ==
    matched # None =>
        /\ pattern = <<"/", "a", "/", "*", "/", "c">> =>
              /\ text = <<"/", "a", "/", "x", "/", "c">> => matched[1]
              /\ text = <<"/", "a", "/", "x", "/", "x", "/", "c">> => ~matched[1]
        /\ pattern = <<"/", "a", "/", "*", "*">> =>
              /\ text = <<"/", "a", "/", "x", "/", "x", "/", "x">> => matched[1]
              /\ text = <<"/", "a">> => ~matched[1]
              /\ text = <<"/", "a", "/">> => ~matched[1]

\* C7 as stated: Route::new returns an error for every pattern that has a
\* non-empty segment with a character outside the allowed class.  The code
\* violates it: PATH_CHARS_REGEX is unanchored and matches the empty string,
\* so is_match never fails and "/#" compiles.
C7_InvalidCharacterRejected ==
    compiled # None =>
        LET segs == Split(pattern, "/")
        IN  (\E i \in 1..Len(segs) :
                \E j \in 1..Len(segs[i]) : segs[i][j] \notin PathChars)
            => ~compiled[1].ok

(***************************************************************************)
(* Properties of the router, checked under Spec.                           *)
(***************************************************************************)
\* The routes whose pattern matches the path of the request being handled.
MatchingRoutes ==
    {i \in 1..Len(config) :
        Regex_is_match(config[i].route.regex, request[1].path)}

\* The last handler invocation of the request being handled.
LastResult == results[Len(results)]

\* The handlers invoked so far are the first matching routes, in ascending
\* order of their index, none of them skipped.
InvokedInOrder ==
    \A k \in 1..Len(invoked) :
        /\ invoked[k] \in MatchingRoutes
        /\ Cardinality({m \in MatchingRoutes : m < invoked[k]}) = k - 1

\* C1: try_handle invokes the matching handlers one at a time in ascending
\* specificity order; the first handler that returns a final response ends
\* the iteration and that response is returned; if every matching handler
\* declines, the fallback response of the last one invoked is returned.
C1_OrderedFallThrough ==
    pc \in {"handling", "done"} =>
        /\ Len(results) = Len(invoked)
        /\ InvokedInOrder
        /\ \A j, k \in 1..Len(invoked) :
              j < k => PrecedenceLeq(config[invoked[j]].route.precedence,
                                     config[invoked[k]].route.precedence)
        /\ \A k \in 1..(Len(invoked) - 1) : ~results[k].ok
        /\ pc = "handling" =>
              /\ \A k \in 1..Len(invoked) : ~results[k].ok
              /\ Len(invoked) < Cardinality(MatchingRoutes)
        /\ (pc = "done" /\ MatchingRoutes # {}) =>
              /\ Len(invoked) >= 1
              /\ response = LastResult.response
              /\ LastResult.ok \/ Len(invoked) = Cardinality(MatchingRoutes)

\* C1's case: three handlers matched, the first two declined and the third
\* one, the least specific, returned the final response.
C1_Witness ==
    /\ pc = "done"
    /\ Len(invoked) = 3
    /\ ~results[1].ok /\ ~results[2].ok /\ results[3].ok
    /\ response = results[3].response
    /\ PrecedenceLess(config[invoked[1]].route.precedence,
                      config[invoked[3]].route.precedence)

\* C2: when no route matches, try_handle returns a plain 404 and invokes no
\* handler.
C2_NoMatchNotFound ==
    (pc \in {"handling", "done"} /\ MatchingRoutes = {}) =>
        /\ pc = "done"
        /\ response = from_status(NOT_FOUND)
        /\ invoked = <<>>
        /\ results = <<>>
        /\ effects = <<>>

\* C2's case: a request was answered that no configured route matches.
C2_Witness ==
    /\ pc = "done"
    /\ MatchingRoutes = {}
    /\ Len(config) >= 1
    /\ response.status = NOT_FOUND

\* The configuration is the three routes "/a", "/*" and "/**", in some order,
\* and the request being handled is to the path /a.
ThreeRoutesRequestA ==
    /\ pc \in {"handling", "done"}
    /\ Len(config) = 3
    /\ {config[i].route.path : i \in 1..3} = RouterPatterns
    /\ request[1].path = <<"/", "a">>

\* C3 as stated: with the routes "/a", "/*" and "/**" registered in any of
\* their six orders, a request to /a is served by the handler of "/a" and
\* never by the handler of "/*" or "/**".
C3_LiteralServes ==
    (ThreeRoutesRequestA /\ pc = "done") =>
        /\ Len(invoked) = 1
        /\ config[invoked[1]].route.path = <<"/", "a">>

\* C3 amended: with those routes in any order, a request to /a is offered
\* to the handler of "/a" first; if that handler accepts it, it serves the
\* request and no other handler is invoked; the handler of "/*" and then
\* that of "/**" are invoked only after every handler before them declined.
C3_LiteralFirst ==
    ThreeRoutesRequestA =>
        /\ (pc = "done" \/ Len(invoked) >= 1) =>
              /\ Len(invoked) >= 1
              /\ config[invoked[1]].route.path = <<"/", "a">>
              /\ results[1].ok => (Len(invoked) = 1 /\ pc = "done"
                                   /\ response = results[1].response)
        /\ \A k \in 1..Len(invoked) :
              config[invoked[k]].route.path # <<"/", "a">> =>
                  /\ \A j \in 1..(k - 1) : ~results[j].ok
                  /\ config[invoked[k]].route.path = <<"/", "*", "*">> =>
                        (k = 3 /\ config[invoked[2]].route.path = <<"/", "*">>)

\* C3's case: "/a" was configured last, after "/**" and "/*", and its
\* handler alone served the request to /a.
C3_Witness ==
    /\ ThreeRoutesRequestA
    /\ pc = "done"
    /\ invoked = <<1>>
    /\ results[1].ok
    /\ config[1].route.path = <<"/", "a">>
    /\ config[1].ord = 3
    /\ config[3].ord = 1

\* After Router::new the routes are in ascending order of precedence, routes
\* of equal precedence in the order of the configuration file, and the
\* handlers and regexes are those of the routes, index by index.
RoutesSortedStable ==
    pc # "new" =>
        /\ {config[i].ord : i \in 1..Len(config)} = 1..Len(config)
        /\ \A i, j \in 1..Len(config) :
              i < j =>
                 \/ PrecedenceLess(config[i].route.precedence,
                                   config[j].route.precedence)
                 \/ /\ config[i].route.precedence = config[j].route.precedence
                    /\ config[i].ord < config[j].ord
        /\ Len(router[1].handlers) = Len(config)
        /\ Len(router[1].regex_set) = Len(config)
        /\ \A i \in 1..Len(config) :
              /\ router[1].regex_set[i] = config[i].route.regex
              /\ router[1].handlers[i].kind = config[i].kind

\* C4: Router::new sorts the routes ascending by score, stable for equal
\* scores, so the order is a function of the configuration alone; the order
\* never changes after construction.
C4_SortedOnceStable ==
    /\ []RoutesSortedStable
    /\ [][pc # "new" => (config' = config /\ router' = router)]_vars

\* C4's case: a router was built from three routes, two of them of equal
\* score, that were not in ascending order in the configuration.
C4_Witness ==
    /\ pc = "idle"
    /\ Len(config) = 3
    /\ config[1].ord = 2
    /\ config[2].ord = 1
    /\ config[3].ord = 3
    /\ config[2].route.precedence = config[3].route.precedence

(***************************************************************************)
(* Properties of a single handler, checked under SpecHandler.              *)
(***************************************************************************)
\* The handler about to be invoked for the request being handled.
NextHandlerInvoked == router[1].handlers[Head(remaining)]

\* The step is a handler invocation that declines with 405 before the
\* kind-specific logic runs, and touches nothing.
DeclinedByFilter ==
    /\ Len(results') = Len(results) + 1
    /\ ~results'[Len(results')].ok
    /\ results'[Len(results')].response = from_status(METHOD_NOT_ALLOWED)
    /\ ~results'[Len(results')].kind_invoked
    /\ response' = from_status(METHOD_NOT_ALLOWED)
    /\ store' = store
    /\ effects' = effects

\* C8: Handler.handle declines with a 405 fallback whenever the request
\* method is not in the handler's method filter, without invoking the
\* kind-specific logic; a DELETE to a JSON store with the default filter
\* gets 405, the document is unchanged and no dirty signal is raised.
C8_MethodFilterDeclines ==
    [][ /\ (pc = "handling"
            /\ ~is_match(NextHandlerInvoked.method_filter, request[1].method))
           => DeclinedByFilter
        /\ (pc = "handling"
            /\ NextHandlerInvoked.kind = "json"
            /\ config[Head(remaining)].methods = None
            /\ request[1].method = "DELETE")
           => DeclinedByFilter
      ]_vars

\* C8's case: a DELETE to a JSON store with the default filter, sent after
\* a PATCH had changed the document, was declined with 405 before the JSON
\* handler ran, and the changed document is still there.
C8_Witness ==
    /\ pc = "done"
    /\ config[1].kind = "json"
    /\ config[1].methods = None
    /\ request[1].method = "DELETE"
    /\ response.status = METHOD_NOT_ALLOWED
    /\ Len(results) = 1
    /\ ~results[1].ok
    /\ ~results[1].kind_invoked
    /\ effects = <<>>
    /\ store[1].value # Doc0

\* C9 as stated: an explicitly configured method set takes precedence over
\* the kind's default filter for every handler kind: the handler declines a
\* request for its method (405) exactly when the method is not in the
\* explicit set; the kind's default decides when no set is configured.  The
\* code violates it: FileHandler::handle and DirHandler::handle decline
\* every method but GET, and JsonHandler::handle every method but GET and
\* PATCH, whatever the explicit set allows.
C9_ExplicitMethodsDecide ==
    (pc = "done" /\ Len(results) = 1) =>
        LET allowed ==
                IF config[1].methods # None
                THEN request[1].method \in config[1].methods[1]
                ELSE is_match(default_method_filter(config[1].kind),
                              request[1].method)
            declined ==
                /\ ~results[1].ok
                /\ results[1].response.status = METHOD_NOT_ALLOWED
        IN  declined <=> ~allowed

\* The step is a failed PATCH on a JSON store: answered 404 or 409.
FailedPatchStep ==
    /\ pc = "handling"
    /\ NextHandlerInvoked.kind = "json"
    /\ request[1].method = "PATCH"
    /\ pc' = "done"
    /\ results'[Len(results')].kind_invoked
    /\ response'.status \in {NOT_FOUND, CONFLICT}

\* A GET on a JSON store that was answered 200 shows the sub-value the
\* pointer reaches in the document as it is now.
GetShowsDocument ==
    (/\ pc = "done"
     /\ config[1].kind = "json"
     /\ config[1].rewrite_path = None
     /\ request[1].method = "GET"
     /\ response.status = OK)
    => response.body = Value_pointer(store[1].value, request[1].path)

\* C10: a PATCH that fails with 404 or 409 leaves the in-memory document
\* exactly as it was, even when earlier operations of the same patch had
\* applied; a GET after it shows the value unchanged.
C10_FailedPatchAtomic ==
    /\ [][FailedPatchStep => store' = store]_vars
    /\ []GetShowsDocument

\* C10's case: the patch [add /k 1, test /k 0] on /a was answered 409: its
\* first operation applies, its second fails, and k is still 0.
C10_Witness ==
    /\ pc = "done"
    /\ config[1].kind = "json"
    /\ request[1].method = "PATCH"
    /\ request[1].path = <<"/", "a">>
    /\ request[1].body.patch = <<Op("add", <<"/", "k">>, Num(1)),
                                 Op("test", <<"/", "k">>, Num(0))>>
    /\ results[1].kind_invoked
    /\ response.status = CONFLICT
    /\ store[1].value = Doc0
    /\ ApplyOp(Value_pointer(Doc0, <<"/", "a">>)[1],
               request[1].body.patch[1]).doc
         # Value_pointer(Doc0, <<"/", "a">>)[1]

\* The Content-Type values that are JSON or have the +json suffix.
JsonContentTypes == {"application/json", "application/json-patch+json"}

\* A PATCH that reached the JSON handler's patch logic has been answered.
PatchAnswered ==
    /\ pc = "done"
    /\ config[1].kind = "json"
    /\ request[1].method = "PATCH"
    /\ Len(results) = 1
    /\ results[1].kind_invoked
    /\ decode(IF config[1].rewrite_path = None THEN request[1].path
              ELSE PathRewriter_rewrite(router[1].handlers[1].path_rewriter[1],
                                        request[1].path)).ok

\* C19 as stated: a PATCH to a JSON store whose content type is not JSON and
\* has no +json suffix, a PATCH without Content-Type header included, is
\* rejected with 415 before the body is parsed and before the write lock is
\* taken; a malformed body with an accepted content type is rejected with
\* 400.  The code violates the absent-header case: json_request skips the
\* check on Ok(None), parses the body and the patch is applied.
C19_ContentTypeRequired ==
    PatchAnswered =>
        /\ request[1].content_type \in {"", "text/plain"} =>
              /\ response.status = UNSUPPORTED_MEDIA_TYPE
              /\ effects = <<>>
        /\ (request[1].content_type \in JsonContentTypes
            /\ ~request[1].body.valid) =>
              /\ response.status = BAD_REQUEST
              /\ effects = <<>>

\* C20: the route's configured extra response headers are merged into every
\* response a handler returns as its final (accepted) response, and are
\* never added to the fallback response of a request the handler declines.
C20_HeadersOnAcceptOnly ==
    pc \in {"handling", "done"} =>
        /\ \A k \in 1..Len(results) :
              /\ config[invoked[k]].response_headers # {}
              /\ IF results[k].ok
                 THEN config[invoked[k]].response_headers
                         \subseteq results[k].response.headers
                 ELSE config[invoked[k]].response_headers
                         \cap results[k].response.headers = {}
        /\ (pc = "done" /\ Len(results) >= 1) =>
              (("x-route" \in response.headers) <=> results[Len(results)].ok)

\* C20's case: a file handler accepted a GET and its response carries the
\* handler's own headers and the route's extra header.
C20_Witness ==
    /\ pc = "done"
    /\ config[1].kind = "file"
    /\ Len(results) = 1
    /\ results[1].ok
    /\ response.status = OK
    /\ response.headers = {"content-length", "content-type", "x-route"}

\* The path the kind-specific logic of the one handler is given: the
\* request path, rewritten when the route has a rewrite.
KindPath ==
    IF config[1].rewrite_path = None THEN request[1].path
    ELSE PathRewriter_rewrite(router[1].handlers[1].path_rewriter[1],
                              request[1].path)

\* s without one trailing "/", and s without one leading "/".
DropTrailingSlash(s) ==
    IF s # <<>> /\ s[Len(s)] = "/" THEN SubSeq(s, 1, Len(s) - 1) ELSE s
DropLeadingSlash(s) ==
    IF s # <<>> /\ s[1] = "/" THEN Tail(s) ELSE s

\* A proxy handler has forwarded the request being handled.
ProxyForwarded ==
    /\ pc = "done"
    /\ config[1].kind = "proxy"
    /\ Len(results) = 1
    /\ results[1].kind_invoked

\* C17: reverse-proxy URI composition joins the upstream base path and the
\* forwarded sub-path with exactly one "/" at the seam (a doubled slash is
\* deduplicated, a missing one inserted) and then appends the base URI's
\* query string unchanged: /api/ + /x and /api + /x both give /api/x, and
\* /api?v=1 + /x gives /api/x?v=1.
C17_ProxyUriComposition ==
    ProxyForwarded =>
        LET base == config[1].config.uri[1]
            seam == DropTrailingSlash(base.path) \o <<"/">>
                        \o DropLeadingSlash(KindPath)
            expected == IF base.query = None THEN seam
                        ELSE seam \o <<"?">> \o base.query[1]
        IN  /\ Len(results[1].effects) = 1
            /\ results[1].effects[1].what = "upstream"
            /\ results[1].effects[1].uri = expected
            /\ KindPath \in {<<"/", "x">>, <<"x">>} =>
                  results[1].effects[1].uri =
                      IF base.query = None
                      THEN <<"/", "a", "p", "i", "/", "x">>
                      ELSE <<"/", "a", "p", "i", "/", "x", "?", "v", "=", "1">>

\* C17's case: the base http://up/api/ and the sub-path /x, both with a
\* slash at the seam, were composed to /api/x.
C17_Witness ==
    /\ ProxyForwarded
    /\ config[1].config.uri[1].path = <<"/", "a", "p", "i", "/">>
    /\ KindPath = <<"/", "x">>
    /\ results[1].effects[1].uri = <<"/", "a", "p", "i", "/", "x">>

\* A directory handler has answered a GET whose path decodes.
DirAnswered ==
    /\ pc = "done"
    /\ config[1].kind = "dir"
    /\ request[1].method = "GET"
    /\ Len(results) = 1
    /\ results[1].kind_invoked
    /\ decode(KindPath).ok

\* The number of pieces among the first n that are equal to piece.
CountPieces(pieces, n, piece) ==
    Cardinality({i \in 1..n : pieces[i] = piece})

\* Some ".." of the path has no component before it left to pop.
EscapesRoot(path) ==
    LET pieces == Split(path, "/")
    IN  \E n \in 1..Len(pieces) :
            2 * CountPieces(pieces, n, <<".", ".">>)
                > n - CountPieces(pieces, n, <<>>)
                    - CountPieces(pieces, n, <<".">>)

StatusCodes ==
    {OK, 201, BAD_REQUEST, NOT_FOUND, METHOD_NOT_ALLOWED, CONFLICT,
     UNSUPPORTED_MEDIA_TYPE, INTERNAL_SERVER_ERROR}

\* C16: Router.handle always produces an HTTP response: a panic raised
\* while handling one request is converted into a 500 response for that
\* request only, and does not prevent other or later requests from being
\* handled (the routes, the handlers and the stores they share are left as
\* they were, and the router takes the next request).
C16_PanicBecomes500 ==
    /\ [](pc = "caught" => response = from_status(INTERNAL_SERVER_ERROR))
    /\ [](pc \in {"done", "caught"} => response.status \in StatusCodes)
    /\ [][pc = "handling" => pc' \in {"handling", "done", "caught"}]_vars
    /\ [][(pc = "handling" /\ pc' = "caught")
            => UNCHANGED <<config, router, store>>]_vars
    /\ [][pc = "caught"
            => (pc' = "idle" /\ UNCHANGED <<config, router, store>>)]_vars

\* C16's case: the second handler tried for a request panicked, and the
\* request was answered 500.
C16_Witness ==
    /\ pc = "caught"
    /\ Len(invoked) = 2
    /\ Len(results) = 1
    /\ response.status = INTERNAL_SERVER_ERROR

(***************************************************************************)
(* Properties of the JSON store under concurrent requests, checked under   *)
(* SpecJson.                                                               *)
(***************************************************************************)
\* Task c takes the step of handle_get that reads the value and answers.
GetStep(c) == client[c].pc = "get" /\ client'[c].pc = "done"

\* {"k":n}
KIs(n) == Obj(Single(Str_k, Num(n)))

\* C11: a GET on pointer p that follows a successful PATCH on p, with no other
\* PATCH on p in between, answers 200 with the sub-value the PATCH response
\* carried.
C11_GetAfterPatch ==
    [][\A c \in Clients :
          (/\ GetStep(c)
           /\ client[c].req.path \in JsonPointers
           /\ last[client[c].req.path].body # None)
          => /\ client'[c].resp # None
             /\ client'[c].resp[1].status = OK
             /\ client'[c].resp[1].body = last[client[c].req.path].body]_vars

\* C11 witness: a GET on /a has answered {"k":1}, the body of the PATCH
\* [add /k 1] on /a committed before it.
C11_Witness ==
    \E c \in Clients :
       /\ client[c].pc = "done"
       /\ client[c].req = JsonGet(Ptr_a)
       /\ last[Ptr_a].body = Some(KIs(1))
       /\ client[c].resp = Some(response_json(KIs(1)))

\* Task c has its response, and it is a PATCH answered 200.
PatchSucceeded(c) ==
    /\ client[c].pc = "done"
    /\ client[c].req.method = "PATCH"
    /\ client[c].resp[1].status = OK

\* C13: a request that has been answered has raised the dirty signal once if
\* it is a PATCH answered 200 and not at all otherwise (a PATCH answered 400,
\* 404, 409 or 415, or a GET); the signal is raised by a task that has its
\* 200 response and does not hold the write lock, and it leaves a permit.
C13_SignalOncePerPatch ==
    /\ [](\A c \in Clients :
             client[c].pc = "done"
             => client[c].signals = IF PatchSucceeded(c) THEN 1 ELSE 0)
    /\ [][\A c \in Clients :
             client'[c].signals > client[c].signals
             => /\ client'[c].signals = 1
                /\ c \notin lock.w
                /\ client[c].req.method = "PATCH"
                /\ client[c].resp # None /\ client[c].resp[1].status = OK
                /\ permit']_vars
    /\ [][(permit' /\ ~permit)
          => \E c \in Clients : client'[c].signals > client[c].signals]_vars

\* C13 witness: task 1 has its 409 for [add /k 1, test /k 0] and has raised no
\* signal, task 2 has its 200 for a PATCH and has raised one.
C13_Witness ==
    /\ client[1].pc = "done"
    /\ client[1].req = JsonPatch(Ptr_a, AddThenTest)
    /\ client[1].resp = Some(from_status(CONFLICT))
    /\ client[1].signals = 0
    /\ PatchSucceeded(2)
    /\ client[2].signals = 1
    /\ permit

\* The sub-value a successful patch of task c's request leaves: the patches
\* of SpecJson set member k whatever it was before.
PatchEffect(c) ==
    json_patch_patch(SubValue(StoreDoc, c)[1], client[c].req.body.patch).doc

\* Task c is the only task that has patched the pointer of its request, and
\* no other task is patching it.
OwnPointer(c) ==
    /\ last[client[c].req.path].by = {c}
    /\ \A d \in lock.w \ {c} : client[d].req.path # client[c].req.path

\* C14: PATCHes of different tasks on disjoint pointers lose no update.  While
\* task c is the only one to have patched its pointer, the document holds the
\* effect of c's latest successful PATCH from its commit on, whatever the
\* other tasks do to other pointers, and a GET by c on that pointer answers
\* with that effect.
C14_NoLostUpdate ==
    /\ [](\A c \in Clients :
             (/\ client[c].pc \in {"notify", "done"}
              /\ client[c].req.method = "PATCH"
              /\ client[c].resp[1].status = OK
              /\ OwnPointer(c))
             => /\ client[c].resp[1].body = Some(PatchEffect(c))
                /\ SubValue(document, c) = Some(PatchEffect(c)))
    /\ [][\A c \in Clients :
             (/\ GetStep(c)
              /\ client[c].req.path \in JsonPointers
              /\ OwnPointer(c))
             => /\ client'[c].resp[1].body = last[client[c].req.path].body
                /\ client'[c].resp[1].body = SubValue(document, c)]_vars

\* C14 witness: task 1 patched /a with [add /k 1], task 2 patched /b with
\* [remove /k, add /k 2], each then read its own pointer and got its own
\* effect, and the final document is {"a":{"k":1},"b":{"k":2}}.
C14_Witness ==
    /\ \A c \in Clients : client[c].pc = "done" /\ client[c].left = 0
    /\ last[Ptr_a].by = {1} /\ last[Ptr_b].by = {2}
    /\ client[1].req = JsonGet(Ptr_a)
    /\ client[1].resp = Some(response_json(KIs(1)))
    /\ client[2].req = JsonGet(Ptr_b)
    /\ client[2].resp = Some(response_json(KIs(2)))
    /\ document = Obj([x \in {Str_a, Str_b} |-> IF x = Str_a THEN KIs(1) ELSE KIs(2)])
    /\ lock = [w |-> {}, r |-> {}]

\* Task c takes the step that ends json_patch::patch with success.
CommitStep(c) == client[c].pc = "patch" /\ client'[c].pc = "notify"
\* Task c takes the step that ends json_patch::patch with an error.
AbortStep(c) == client[c].pc = "patch" /\ client'[c].pc = "done"

\* The document task c found when it took the write lock, with the whole
\* patch of its request applied to the value its pointer reaches.
SerialResult(c) ==
    WithSubValue(client[c].base[1], c,
                 json_patch_patch(SubValue(client[c].base[1], c)[1],
                                  client[c].req.body.patch).doc)

\* C15: PATCHes are linearized by the write lock.  At most one task holds the
\* write lock and nobody reads meanwhile; the document changes only in steps
\* of the task holding it; when a PATCH commits, the document is the one the
\* task found when it took the lock with all the operations of its patch
\* applied and nothing else, and the response body is the sub-value of that
\* document; when a PATCH fails, the document is the one the task found.  So
\* the document at any moment without writer is the result of the committed
\* patches applied one after another in commit order.
C15_PatchesLinearized ==
    /\ [](Cardinality(lock.w) <= 1 /\ (lock.w # {} => lock.r = {}))
    /\ [][document' # document
          => \E c \in Clients :
                /\ lock.w = {c}
                /\ client[c].pc = "patch"
                /\ client'[c] # client[c]]_vars
    /\ [][\A c \in Clients :
             CommitStep(c)
             => /\ document' = document
                /\ document = SerialResult(c)
                /\ client'[c].resp = Some(response_json(SubValue(SerialResult(c), c)[1]))
                /\ c \in lock.w /\ c \notin lock'.w]_vars
    /\ [][\A c \in Clients :
             AbortStep(c) => document' = client[c].base[1]]_vars

\* C15 witness: both tasks have patched /a, one with [add /k 1] and one with
\* [remove /k, add /k 2]; each has the sub-value it committed as its response
\* body and the document holds the later one.
C15_Witness ==
    /\ PatchSucceeded(1) /\ PatchSucceeded(2)
    /\ client[1].req = JsonPatch(Ptr_a, SwapK2)
    /\ client[2].req = JsonPatch(Ptr_a, AddK1)
    /\ client[1].resp = Some(response_json(KIs(2)))
    /\ client[2].resp = Some(response_json(KIs(1)))
    /\ last[Ptr_a].by = {1, 2}
    /\ SubValue(document, 1) = Some(KIs(2))

(***************************************************************************)
(* Properties of the Sync task, checked under SpecJsonFair.                *)
(***************************************************************************)
\* C12: with the tasks scheduled fairly, and unless an I/O operation of a
\* flush has failed, from some moment on the file holds the serialization of
\* the in-memory document: the document as the last successful PATCH left it
\* is eventually flushed and stays on disk.
C12_EventuallyFlushed ==
    <>[](worker.failures = 0 => file = to_string(document))

\* C12 witness: both tasks have made all their requests, the document is no
\* longer the one read at start-up, no I/O operation has failed, the Sync
\* task waits for a signal that is not there and the file holds the document.
C12_Witness ==
    /\ \A c \in Clients : client[c].pc = "done" /\ client[c].left = 0
    /\ document # StoreDoc
    /\ worker = [pc |-> "notified", buf |-> <<>>, failures |-> 0, pending |-> 0]
    /\ ~permit
    /\ file = to_string(document)

(***************************************************************************)
(* Properties of the Sync task's flushes, checked under SpecJson.          *)
(***************************************************************************)
\* The Sync task takes the step that ends write() with Ok: write_all wrote
\* the whole buffer.
FlushStep ==
    /\ worker.pc = "write_all" /\ worker'.pc = "notified"
    /\ worker'.failures = worker.failures

\* s is the end of t.
IsSuffix(s, t) ==
    Len(s) <= Len(t) /\ SubSeq(t, Len(t) - Len(s) + 1, Len(t)) = s

\* C21: a flush that follows a failed flush and whose own I/O succeeds leaves
\* the file equal to the serialization of the in-memory document (taken when
\* the document is still the one that flush serialized).
C21_FlushAfterFailureClean ==
    [][(/\ FlushStep
        /\ worker.failures > 0
        /\ IsSuffix(to_string(document), worker.buf))
       => file' = to_string(document)]_vars

\* The Sync task takes the step that returns from notified().await.
WakeStep == worker.pc = "notified" /\ worker'.pc = "read"

\* C22: the dirty signal is a single slot.  However many notify calls were
\* made since the Sync task last woke, there is one permit; a wake needs at
\* least one such call and uses up all of them, so that no second wake (and
\* flush) follows without a further successful PATCH, and the flushes never
\* outnumber the successful PATCHes.
C22_SingleSlotSignal ==
    /\ [](permit <=> worker.pending >= 1)
    /\ [][WakeStep
          => /\ worker.pending >= 1
             /\ worker'.pending = 0
             /\ ~permit']_vars
    /\ [][(worker'.pc # worker.pc /\ worker.pc = "notified") => WakeStep]_vars

\* C22 witness: the Sync task is writing the file, two successful PATCHes
\* have raised the signal since it woke, and one permit is stored.
C22_Witness ==
    /\ worker.pc = "write_all"
    /\ worker.pending = 2
    /\ permit
    /\ \A c \in Clients : PatchSucceeded(c) /\ client[c].signals = 1

\* The document as the tasks that do not hold the write lock can know it:
\* the in-memory value, or, while a PATCH holds the write lock, the value it
\* found when it took the lock.
CommittedDoc ==
    IF lock.w = {} THEN document ELSE client[CHOOSE c \in lock.w : TRUE].base[1]

\* C23: the in-memory document changes only in the step in which a PATCH
\* commits with 200 (a GET, a PATCH that fails, a request that is answered
\* without the lock and the Sync task leave it as it was), and the file
\* changes only in a step of the Sync task's write(): truncate or write.
C23_FrameOfDocumentAndFile ==
    /\ [][CommittedDoc' # CommittedDoc
          => \E c \in Clients :
                /\ CommitStep(c)
                /\ client[c].req.method = "PATCH"
                /\ client'[c].resp[1].status = OK
                /\ worker' = worker /\ file' = file]_vars
    /\ [][file' # file
          => /\ worker.pc \in {"set_len", "write_all"}
             /\ worker'.pc # worker.pc
             /\ client' = client /\ document' = document]_vars
    /\ [][\A c \in Clients :
             (client'[c] # client[c] /\ ~CommitStep(c))
             => CommittedDoc' = CommittedDoc]_vars

\* C23 witness: a PATCH on /a has failed with 409 after its first operation
\* was applied, another PATCH has committed on /b, the document holds only
\* the committed one and the file holds that document.
C23_Witness ==
    /\ client[1].pc = "done"
    /\ client[1].req = JsonPatch(Ptr_a, AddThenTest)
    /\ client[1].resp = Some(from_status(CONFLICT))
    /\ PatchSucceeded(2)
    /\ lock.w = {}
    /\ document = Obj([x \in {Str_a, Str_b} |-> IF x = Str_a THEN KIs(0) ELSE KIs(1)])
    /\ file = to_string(document)

\* The positions of the Sync task in its file I/O: before seek and
\* set_len, and before write_all.
IoPositions == {"set_len", "write_all"}

\* C24: the Sync task holds the read lock exactly while it is in fill_buf
\* and never the write lock; while it is in its file I/O, a PATCH that waits
\* for the write lock gets it unless a request task holds the lock, and a GET
\* that waits for the read lock gets it unless a PATCH holds the write lock.
C24_NoLockDuringIo ==
    /\ (Sync \in lock.r <=> worker.pc = "fill_buf")
    /\ Sync \notin lock.w
    /\ \A c \in Clients :
          (/\ worker.pc \in IoPositions
           /\ client[c].pc = "write"
           /\ lock.w = {} /\ lock.r \cap Clients = {})
          => ENABLED WriteLock(c)
    /\ \A c \in Clients :
          (/\ worker.pc \in IoPositions
           /\ client[c].pc = "read"
           /\ lock.w = {})
          => ENABLED ReadLock(c)

\* C24 witness: the Sync task has serialized the document and is about to
\* write the file; meanwhile task 1 has taken the write lock for a PATCH and
\* applied its first operation.
C24_Witness ==
    /\ worker.pc = "write_all"
    /\ worker.buf # <<>>
    /\ lock = [w |-> {1}, r |-> {}]
    /\ client[1].pc = "patch" /\ client[1].i = 2

\* The holders of the lock, request tasks and Sync task.
Holders == lock.w \cup lock.r

\* C25: every outcome of GET and PATCH releases the lock.  The write lock is
\* held exactly by the tasks inside json_patch::patch and the read lock by
\* the tasks inside handle_get and fill_buf; a task that has its response
\* (200, 400, 404, 409, 415) holds nothing; and with the tasks scheduled
\* fairly, a request that waits for the lock is eventually answered and the
\* Sync task that waits for it eventually serializes: nothing is deadlocked
\* on the lock.
C25_LockAlwaysReleased ==
    /\ [](/\ lock.w = {c \in Clients : client[c].pc = "patch"}
          /\ lock.r \cap Clients = {c \in Clients : client[c].pc = "get"}
          /\ \A c \in Clients :
                client[c].pc \in {"done", "idle", "notify"} => c \notin Holders)
    /\ \A c \in Clients :
          (client[c].pc \in {"write", "read"}) ~> (client[c].pc = "done")
    /\ (worker.pc = "read") ~> (worker.pc = "fill_buf")

\* C25 witness: task 1 has its 404 for a PATCH on /c, whose pointer reaches
\* nothing, and task 2 now holds the write lock for its own PATCH.
C25_Witness ==
    /\ client[1].pc = "done"
    /\ client[1].req = JsonPatch(Ptr_c, AddK1)
    /\ client[1].resp = Some(from_status(NOT_FOUND))
    /\ client[1].left = 0
    /\ lock.w = {2}

\* The Sync task takes the step of fill_buf that serializes the value.
FillStep == worker.pc = "fill_buf" /\ worker'.pc = "set_len"

\* C26: a PATCH excludes readers and writers from lock to release, so what a
\* GET answers and what the Sync task serializes is taken from a committed
\* document, never from one in which only some operations of a patch have
\* been applied; readers do not exclude each other.
C26_NoPartialReads ==
    /\ [](lock.w # {} => (Cardinality(lock.w) = 1 /\ lock.r = {}))
    /\ [][\A c \in Clients :
             (GetStep(c) /\ client[c].req.path \in JsonPointers)
             => /\ lock.w = {}
                /\ client'[c].resp[1].body = SubValue(CommittedDoc, c)
                /\ Str_k \in DOMAIN client'[c].resp[1].body[1].o]_vars
    /\ [][FillStep
          => /\ lock.w = {}
             /\ worker'.buf = worker.buf \o to_string(CommittedDoc)]_vars

\* C26 witness: after a PATCH on /a committed, both tasks hold the read lock
\* for a GET at the same time, together with the Sync task.
C26_Witness ==
    /\ lock = [w |-> {}, r |-> {Sync, 1, 2}]
    /\ client[1].pc = "get" /\ client[2].pc = "get"
    /\ last[Ptr_a].body # None

\* C28: a signal raised while the Sync task is between fill_buf and the end
\* of the file write is kept: the permit stays until a wake takes it, the
\* Sync task wakes again after the write, and a wake is followed by a
\* fill_buf that serializes the document as it is then, with every PATCH
\* committed so far.  Checked under SpecJsonFair.
C28_SignalRetained ==
    /\ [][(permit /\ ~permit') => WakeStep]_vars
    /\ (permit /\ worker.pc \in IoPositions) ~> (worker.pc = "read")
    /\ (worker.pc = "read")
          ~> (worker.pc = "set_len" /\ IsSuffix(to_string(document), worker.buf))

\* C28 witness: the Sync task stands before write_all with a buffer that does
\* not hold the document any more, because a PATCH has committed since, and
\* that PATCH has raised the signal.
C28_Witness ==
    /\ worker.pc = "write_all"
    /\ ~IsSuffix(to_string(document), worker.buf)
    /\ permit /\ worker.pending = 1
    /\ lock.w = {}
    /\ \E c \in Clients : PatchSucceeded(c) /\ client[c].signals = 1

\* No PATCH is between its arrival and its last step.
NoPatchInFlight ==
    \A c \in Clients :
       client[c].req.method = "PATCH" => client[c].pc \in {"idle", "done"}

\* C29: when no flush I/O has failed, no PATCH is in flight, the Sync task
\* waits in notified() and no permit is stored, the file holds the
\* serialization of the in-memory document.
C29_QuiescentClean ==
    (/\ worker.failures = 0
     /\ NoPatchInFlight
     /\ worker.pc = "notified"
     /\ ~permit)
    => file = to_string(document)

\* C29 witness: task 1 has patched /a and read it back, task 2 has made no
\* request, the Sync task has flushed and waits, and the file holds the
\* changed document.
C29_Witness ==
    /\ client[1].pc = "done" /\ client[1].req = JsonGet(Ptr_a)
    /\ client[2].pc = "idle"
    /\ last[Ptr_a].by = {1}
    /\ worker.failures = 0 /\ worker.pc = "notified" /\ ~permit
    /\ document # StoreDoc
    /\ file = to_string(document)

(***************************************************************************)
(* Further properties of the Router, checked under Spec.                   *)
(***************************************************************************)
\* C27: a handler that declines hands back the request it was given, with
\* the same method, path, Content-Type and body, whether the method filter
\* or the kind-specific logic declined; the request try_handle holds does
\* not change from one candidate to the next, so every candidate is invoked
\* with the request the client sent.
C27_DeclineKeepsRequest ==
    /\ [](pc \in {"handling", "done"}
          => \A k \in 1..Len(results) :
                ~results[k].ok => results[k].request = request[1])
    /\ [][pc = "handling" => (request' = request /\ request # None)]_vars
    /\ [][(pc = "idle" /\ pc' # "idle")
          => (request' # None /\ request'[1] \in RouterRequests)]_vars

\* C27 witness: a GET was declined with 405 by the method filter of a
\* POST-only route, the kind-specific logic not being invoked, and then
\* served by the next matching route, which takes GET.
C27_Witness ==
    /\ pc = "done"
    /\ request[1].method = "GET"
    /\ Len(invoked) = 2
    /\ ~results[1].ok /\ ~results[1].kind_invoked
    /\ results[1].response.status = METHOD_NOT_ALLOWED
    /\ router[1].handlers[invoked[1]].method_filter = MethodSet({"POST"})
    /\ results[2].ok /\ results[2].response.status = OK
    /\ results[2].request = request[1]
    /\ response = results[2].response

\* Handler h is the one Handler::new builds from the configured route r.
BuiltFrom(h, r) ==
    /\ h.kind = r.kind
    /\ h.config = r.config
    /\ h.response_headers = r.response_headers
    /\ h.method_filter = IF r.methods # None THEN MethodSet(r.methods[1])
                         ELSE default_method_filter(r.kind)

\* C30: after Router::new, the RegexSet and the handler list have one entry
\* per configured route, and entry i of both comes from the same route, the
\* i-th in precedence order; so every handler try_handle invokes is the one
\* built from a route whose pattern matches the request path.
C30_MatcherAndHandlersAligned ==
    router # None =>
        /\ Len(router[1].regex_set) = Len(config)
        /\ Len(router[1].handlers) = Len(config)
        /\ {config[i].ord : i \in 1..Len(config)} = 1..Len(config)
        /\ \A i \in 1..Len(config) :
              /\ router[1].regex_set[i] = Route_new(config[i].route.path).regex
              /\ BuiltFrom(router[1].handlers[i], config[i])
        /\ pc \in {"handling", "done", "caught"} =>
              \A k \in 1..Len(invoked) :
                 /\ Regex_is_match(config[invoked[k]].route.regex, request[1].path)
                 /\ BuiltFrom(router[1].handlers[invoked[k]], config[invoked[k]])

\* C30 witness: Router::new moved the route configured last to the front,
\* the routes are of different kinds, and a request was answered by the
\* handler of that route.
C30_Witness ==
    /\ router # None
    /\ Len(config) = 3
    /\ config[1].ord = 3
    /\ config[1].kind # config[2].kind /\ config[1].kind # config[3].kind
    /\ pc = "done"
    /\ invoked = <<1>>
    /\ results[1].ok

=============================================================================
